---- MODULE Spec2Model ----
(***************************************************************************)
(* A model of the HesabPak bookkeeping application (src/app.py): the       *)
(* unified invoice and cash-document routes, the hash-chained ledger, and  *)
(* the AI assistant's chat / apply endpoints with their pending-ticket     *)
(* store, the entity forms and the developer console, the user catalog    *)
(* with the login, the assistant's drafts, and the startup block; of the   *)
(* fiscal-year blueprint (src/blueprints/backup.py); and of the            *)
(* background updater of the rates (src/utils/rates.py).                   *)
(*                                                                         *)
(* Conventions.                                                            *)
(*  - Database tables are sequences of rows; a row's id is its index.      *)
(*  - Quantities are exact integers counted in units of 1e-6, so that the  *)
(*    stock tolerance of the code (1e-6) is the integer Eps = 1.  Prices   *)
(*    and money amounts are integers.  Float rounding is not modelled.     *)
(*  - An absent / empty request parameter is the empty string "" for text  *)
(*    and 0 for an id.                                                     *)
(*  - req and resp hold the request the last step handled and the response *)
(*    it sent; a step of the clock handles none.                           *)
(***************************************************************************)
EXTENDS Integers, Sequences, FiniteSets, TLC

VARIABLES
    users,                 \* the user catalog (users.json): username -> entry
    allow_negative_sales,  \* Setting "allow_negative_sales"
    entities,              \* table entities
    invoices,              \* table invoices
    invoice_lines,         \* table invoice_lines
    price_history,         \* table price_history
    cash_boxes,            \* table cash_boxes
    cash_docs,             \* table cash_docs
    ledger_entries,        \* table ledger_entries
    AI_PENDING_TASKS,      \* the in-memory ticket store: token -> task
    tokens_issued,         \* how many tickets secrets.token_hex has produced
    files,                 \* the project tree: path -> content ("" = no file)
    now,                   \* the wall clock, in minutes
    req,                   \* the last request
    resp,                  \* the response to it
    accounts,              \* table accounts
    audit_events,          \* table audit_events
    fiscal_year_current,   \* Setting "fiscal_year_current" / "fiscal_year_start"
    fiscal_years,          \* Setting "fiscal_years": the registered years
    fiscal_cases,          \* fiscal_cases/<key>/snapshot.json: key -> snapshot
    _updater_thread,       \* utils.rates._updater_thread (0 = None)
    _stop_event,           \* utils.rates._stop_event (0 = None)
    events,                \* the threading.Event objects made: id -> is it set
    threads,               \* the updater threads made: id -> where it is
    callers,               \* the threads calling start / stop: where they are
    sessions,              \* the usernames browsers hold a signed session for
    workers,               \* request threads inside a handler: where they are
    assistant_settings     \* Setting "assistant.*": auto-create and the drafts

vars == <<users, allow_negative_sales, entities, invoices, invoice_lines,
          price_history, cash_boxes, cash_docs, ledger_entries,
          AI_PENDING_TASKS, tokens_issued, files, now, req, resp,
          accounts, audit_events, fiscal_year_current, fiscal_years,
          fiscal_cases, _updater_thread, _stop_event, events, threads, callers,
          sessions, workers, assistant_settings>>

\* What the fiscal-year blueprint alone touches, and the rates updater's state
yearVars == <<accounts, audit_events, fiscal_year_current, fiscal_years, fiscal_cases>>

updaterVars == <<_updater_thread, _stop_event, events, threads, callers>>

\* The sessions handed out, the request threads under way, the assistant's
\* settings
webVars == <<sessions, workers, assistant_settings>>

dbVars == <<entities, invoices, invoice_lines, price_history, cash_docs>>

-----------------------------------------------------------------------------
(* Bounds of the model *)

MaxInvoices == 2
MaxCashDocs == 2
MaxLedger == 3
MaxTickets == 1
MaxNow == 16
MaxLag == 1
MaxAudit == 1
MaxThreads == 3
MaxEntities == 4
MaxWorkers == 2
MaxDrafts == 1

(* Program constants *)

MAX_ROWS == 15
Eps == 1
TicketTTL == 15
ChequeDigits == 16

-----------------------------------------------------------------------------
(* Small helpers *)

Max(a, b) == IF a >= b THEN a ELSE b

Min(a, b) == IF a <= b THEN a ELSE b

RECURSIVE SumSeq(_)
SumSeq(s) == IF s = <<>> THEN 0 ELSE Head(s) + SumSeq(Tail(s))

Replicate(x, n) == [i \in 1..n |-> x]

-----------------------------------------------------------------------------
(* Users and permissions *)

DEFAULT_PERMISSIONS ==
    {"dashboard", "sales", "purchase", "receive", "payment", "reports",
     "entities", "assistant"}

ADMIN_PERMISSIONS == DEFAULT_PERMISSIONS \cup {"developer", "admin"}

\* _permissions_for_role: the permission list a catalog entry ends up with.
_permissions_for_role(role, requested) ==
    IF role = "admin" THEN ADMIN_PERMISSIONS
    ELSE LET allowed == requested \cap DEFAULT_PERMISSIONS
             base == IF role = "staff" /\ allowed = {}
                     THEN DEFAULT_PERMISSIONS ELSE allowed
         IN base \cup {"dashboard"}

\* A user loader that forgets the is_active flag
LoadUserWhateverActive(user_id) ==
    IF user_id \in DOMAIN users THEN user_id ELSE ""

\* load_user: the session's user, or "" when flask-login finds none.
load_user(user_id) ==
    IF user_id \in DOMAIN users /\ users[user_id].is_active
    THEN user_id ELSE ""

is_admin(u) == u # "" /\ users[u].role = "admin"

user_permissions(u) ==
    IF u = "" THEN {}
    ELSE IF is_admin(u) THEN ADMIN_PERMISSIONS
    ELSE users[u].permissions

\* ensure_permission(*perms): TRUE when the request goes on, FALSE on abort(403).
ensure_permission(u, perms) ==
    IF perms = {} THEN TRUE
    ELSE IF u = "" THEN FALSE
    ELSE IF is_admin(u) THEN TRUE
    ELSE \E p \in perms : p # "" /\ p \in user_permissions(u)

ADMIN_USERNAME == "admin"

ADMIN_PASSWORD == "admin123"

InitUsers ==
    [u \in {"admin", "seller", "teller"} |->
        IF u = ADMIN_USERNAME
        THEN [password |-> ADMIN_PASSWORD, role |-> "admin",
              permissions |-> _permissions_for_role("admin", {}),
              is_active |-> TRUE]
        ELSE IF u = "seller"
        THEN [password |-> "pw", role |-> "limited",
              permissions |-> _permissions_for_role("limited", {"sales", "assistant"}),
              is_active |-> TRUE]
        ELSE [password |-> "pw", role |-> "limited",
              permissions |-> _permissions_for_role("limited", {"receive", "assistant"}),
              is_active |-> TRUE]]

-----------------------------------------------------------------------------
(* Entities *)

\* Entity codes are digit strings of 3, 6 or 9 digits, kept as the sequence of
\* their 3-digit groups; "" is no code.
NoCode == <<>>

Person(code, name, balance) ==
    [type |-> "person", code |-> code, name |-> name, parent_id |-> 0,
     stock_qty |-> 0, balance |-> balance]

Item(code, name, stock) ==
    [type |-> "item", code |-> code, name |-> name, parent_id |-> 0,
     stock_qty |-> stock, balance |-> 0]

EntityIds == 1..Len(entities)

\* Entity.query.get(id): the id, or 0 for None.
EntityGet(id) == IF id \in EntityIds THEN id ELSE 0

\* Entity.query.filter_by(type=kind, code=code).first()
EntityByCode(kind, code) ==
    LET hits == {e \in EntityIds : entities[e].type = kind /\ entities[e].code = code}
    IN IF hits = {} THEN 0 ELSE CHOOSE e \in hits : \A f \in hits : e <= f

\* person / item lookup of the invoice and cash forms: the id token first, then
\* the code (restricted to the wanted type).  0 is None.
FormEntity(kind, token, code) ==
    IF EntityGet(token) # 0 THEN EntityGet(token)
    ELSE IF code # NoCode THEN EntityByCode(kind, code)
    ELSE 0

\* Names are sequences of characters.
InitEntities ==
    << Person(<<100>>, <<"a", "l", "i">>, 0),
       Item(<<100, 0, 0>>, <<"p", "e", "n">>, 14),
       Item(<<100, 0, 1>>, <<"i", "n", "k">>, 1) >>

-----------------------------------------------------------------------------
(* Document numbers *)

\* jalali_reference(prefix, dt): "<prefix>-<jalali date>-<time>".  Two requests
\* that read the same clock value get the same reference.
jalali_reference(prefix, dt) == [text |-> "ref", prefix |-> prefix, at |-> dt]

\* A string of decimal digits: its value and its length.
NDigits(n) == IF n < 10 THEN 1 ELSE IF n < 100 THEN 2 ELSE 3

Digits(n, width) == [text |-> "digits", value |-> n, len |-> Max(width, NDigits(n))]

isdigit(number) == number.text = "digits"

NoNumber == [text |-> "empty"]

InvoiceNumbers == {invoices[i].number : i \in 1..Len(invoices)}

\* generate_invoice_number(): last invoice's number + 1 when it is numeric,
\* else last id + 1, else 1; zero-padded to 8 digits.
generate_invoice_number ==
    LET n == Len(invoices)
        nxt == IF n > 0 /\ isdigit(invoices[n].number)
               THEN invoices[n].number.value + 1
               ELSE IF n > 0 THEN n + 1 ELSE 1
    IN Digits(nxt, 8)

\* The number the purchase form proposes: max numeric purchase number + 1.
PurchaseNumberGenerated ==
    LET nums == {invoices[i].number.value :
                   i \in {j \in 1..Len(invoices) :
                            invoices[j].kind = "purchase" /\ isdigit(invoices[j].number)}}
    IN IF nums = {} THEN Digits(1, 1)
       ELSE Digits((CHOOSE m \in nums : \A k \in nums : m >= k) + 1, 1)

-----------------------------------------------------------------------------
(* The unified invoice route *)

\* kind = (request.args.get("kind") or "sales"), anything unknown is "sales".
InvoiceKindOfQuery(kind_arg) ==
    IF kind_arg = "purchase" THEN "purchase" ELSE "sales"

\* The permission the route asks for.
InvoicePermission(kind) == IF kind = "sales" THEN "sales" ELSE "purchase"

\* form_kind = (request.form.get("invoice_kind") or kind), unknown falls back to kind.
InvoiceKindOfForm(field, kind) ==
    IF field \in {"sales", "purchase"} THEN field ELSE kind

\* The item a form row names: Entity.query.get(id) whatever its type, and only
\* when that finds nothing the item with the row's code.
RowItem(r) ==
    IF EntityGet(r.item_id) # 0 THEN EntityGet(r.item_id)
    ELSE IF r.item_code # NoCode THEN EntityByCode("item", r.item_code)
    ELSE 0

RowValid(r) ==
    /\ RowItem(r) # 0
    /\ entities[RowItem(r)].type = "item"
    /\ r.qty > 0
    /\ r.unit_price >= 0

\* A stock check that forgets the rows already taken from the same item.
BaseStockForgetful(pending, item) == entities[item].stock_qty

\* pending_stock.get(item.id, item.stock_qty or 0.0)
BaseStock(pending, item) ==
    IF item \in DOMAIN pending THEN pending[item] ELSE entities[item].stock_qty

\* base_stock - q < -1e-6
StockShort(base_stock, q) == base_stock - q < -Eps

\* The row loop: rows kept, the running stock projection, and whether a row
\* was refused for lack of stock (the handler returns at that row).
RECURSIVE ScanRows(_, _, _, _, _)
ScanRows(form_rows, i, form_kind, allow_negative, acc) ==
    IF i > Len(form_rows) \/ acc.short # 0 \/ Len(acc.rows) >= MAX_ROWS THEN acc
    ELSE LET r == form_rows[i]
             item == RowItem(r)
         IN IF ~RowValid(r)
            THEN ScanRows(form_rows, i + 1, form_kind, allow_negative, acc)
            ELSE IF form_kind = "sales"
            THEN LET base == BaseStock(acc.pending, item)
                     projected == [x \in DOMAIN acc.pending \cup {item} |->
                                     IF x = item THEN base - r.qty ELSE acc.pending[x]]
                 IN IF ~allow_negative /\ StockShort(base, r.qty)
                    THEN [acc EXCEPT !.short = item]
                    ELSE ScanRows(form_rows, i + 1, form_kind, allow_negative,
                                  [rows |-> Append(acc.rows,
                                        [item |-> item, unit_price |-> r.unit_price, qty |-> r.qty]),
                                   pending |-> projected, short |-> 0])
            ELSE ScanRows(form_rows, i + 1, form_kind, allow_negative,
                          [acc EXCEPT !.rows = Append(acc.rows,
                                [item |-> item, unit_price |-> r.unit_price, qty |-> r.qty])])

RowsTotal(rows) == SumSeq([i \in 1..Len(rows) |-> rows[i].unit_price * rows[i].qty])

\* float(total) <= 0
TotalRefused(total) == total <= 0

\* PriceHistory.query.filter_by(person_id, item_id).first(): its index, or 0.
PriceRow(ph, person, item) ==
    LET hits == {k \in 1..Len(ph) : ph[k].person_id = person /\ ph[k].item_id = item}
    IN IF hits = {} THEN 0 ELSE CHOOSE k \in hits : \A j \in hits : k <= j

\* A price row that inserts without looking for the pair's row
UpsertPriceInsertsAlways(ph, person, item, up) ==
    Append(ph, [person_id |-> person, item_id |-> item, last_price |-> up])

\* insert the (person, item) price if absent, else update last_price
UpsertPrice(ph, person, item, up) ==
    IF PriceRow(ph, person, item) = 0
    THEN Append(ph, [person_id |-> person, item_id |-> item, last_price |-> up])
    ELSE [ph EXCEPT ![PriceRow(ph, person, item)].last_price = up]

\* Whether the route records the line's price for this kind of invoice.
RouteTouchesPrice(form_kind) == TRUE

StockAfter(form_kind, stock, qty) ==
    IF form_kind = "sales" THEN stock - qty ELSE stock + qty

BalanceAfter(form_kind, balance, total) ==
    IF form_kind = "sales" THEN balance + total ELSE balance - total

\* The per-line loop of the route after the invoice header is flushed.
RECURSIVE RouteLines(_, _, _, _, _, _)
RouteLines(rows, i, form_kind, person, inv_id, st) ==
    IF i > Len(rows) THEN st
    ELSE LET r == rows[i]
             line == [invoice_id |-> inv_id, item_id |-> r.item, qty |-> r.qty,
                      unit_price |-> r.unit_price, line_total |-> r.qty * r.unit_price]
         IN RouteLines(rows, i + 1, form_kind, person, inv_id,
               [lines |-> Append(st.lines, line),
                ents |-> [st.ents EXCEPT ![r.item].stock_qty =
                              StockAfter(form_kind, st.ents[r.item].stock_qty, r.qty)],
                ph |-> IF RouteTouchesPrice(form_kind)
                       THEN UpsertPrice(st.ph, person, r.item, r.unit_price)
                       ELSE st.ph])

DbUnchanged == UNCHANGED dbVars

\* What the route does with an authorised POST: the response and the tables
\* after it.
InvoicePost(kind, form) ==
    LET form_kind == InvoiceKindOfForm(form.invoice_kind, kind)
        generated == IF kind = "sales" THEN jalali_reference("INV", now)
                     ELSE PurchaseNumberGenerated
        number == IF form.inv_number = NoNumber THEN generated ELSE form.inv_number
        person == FormEntity("person", form.person_token, form.person_code)
        scan == ScanRows(form.rows, 1, form_kind, allow_negative_sales,
                         [rows |-> <<>>, pending |-> <<>>, short |-> 0])
        total == RowsTotal(scan.rows)
        final_number == IF number \in InvoiceNumbers
                        THEN generate_invoice_number ELSE number
        inv_id == Len(invoices) + 1
        done == RouteLines(scan.rows, 1, form_kind, person, inv_id,
                           [lines |-> invoice_lines, ents |-> entities, ph |-> price_history])
        same == [status |-> "rejected", reason |-> "", form_kind |-> form_kind,
                 entities |-> entities, invoices |-> invoices,
                 invoice_lines |-> invoice_lines, price_history |-> price_history]
    IN IF person = 0 \/ entities[person].type # "person"
       THEN [same EXCEPT !.reason = "person"]
       ELSE IF scan.short # 0
       THEN [same EXCEPT !.reason = "stock"]
       ELSE IF scan.rows = <<>>
       THEN [same EXCEPT !.reason = "rows"]
       ELSE IF TotalRefused(total)
       THEN [same EXCEPT !.reason = "total"]
       ELSE IF final_number \in InvoiceNumbers
       THEN [same EXCEPT !.status = "error", !.reason = "number"]
       ELSE [status |-> "created", reason |-> "", form_kind |-> form_kind,
             entities |-> [done.ents EXCEPT ![person].balance =
                              BalanceAfter(form_kind, done.ents[person].balance, total)],
             invoices |-> Append(invoices,
                              [number |-> final_number, person_id |-> person,
                               kind |-> form_kind, total |-> total]),
             invoice_lines |-> done.lines,
             price_history |-> done.ph]

\* POST /invoice (aliases /sales, /purchase)
unified_invoice(user_id, path, kind_arg, form) ==
    LET u == load_user(user_id)
        kind == InvoiceKindOfQuery(kind_arg)
        out == InvoicePost(kind, form)
    IN /\ Len(invoices) < MaxInvoices
       /\ req' = [op |-> "invoice", user |-> user_id, path |-> path,
                  kind |-> kind_arg, form |-> form]
       /\ IF u = ""
          THEN resp' = [status |-> "login"] /\ DbUnchanged
          ELSE IF ~ensure_permission(u, {InvoicePermission(kind)})
          THEN resp' = [status |-> "forbidden"] /\ DbUnchanged
          ELSE /\ resp' = [status |-> out.status, reason |-> out.reason,
                           form_kind |-> out.form_kind,
                           invoice_id |-> IF out.status = "created"
                                          THEN Len(invoices) + 1 ELSE 0]
               /\ entities' = out.entities
               /\ invoices' = out.invoices
               /\ invoice_lines' = out.invoice_lines
               /\ price_history' = out.price_history
               /\ UNCHANGED cash_docs
       /\ UNCHANGED <<yearVars, updaterVars, webVars>>
       /\ UNCHANGED <<users, allow_negative_sales, cash_boxes, ledger_entries,
                      AI_PENDING_TASKS, tokens_issued, files, now>>

\* POST /settings, form "ui": the admin sets allow_negative_sales
settings_stub(user_id, allow_negative) ==
    LET u == load_user(user_id)
    IN /\ req' = [op |-> "settings", user |-> user_id, allow_negative |-> allow_negative]
       /\ IF u = "" THEN resp' = [status |-> "login"] /\ UNCHANGED allow_negative_sales
          ELSE IF ~is_admin(u)
          THEN resp' = [status |-> "forbidden"] /\ UNCHANGED allow_negative_sales
          ELSE resp' = [status |-> "saved"] /\ allow_negative_sales' = allow_negative
       /\ UNCHANGED <<yearVars, updaterVars, webVars>>
       /\ UNCHANGED <<users, entities, invoices, invoice_lines, price_history,
                      cash_boxes, cash_docs, ledger_entries, AI_PENDING_TASKS,
                      tokens_issued, files, now>>

-----------------------------------------------------------------------------
(* Requests the model sends *)

Usernames == {"admin", "seller", "teller"}

FormRow(item_id, qty, unit_price) ==
    [item_id |-> item_id, item_code |-> NoCode, qty |-> qty, unit_price |-> unit_price]

InvoiceRowLists ==
    { << FormRow(2, 8, 3), FormRow(2, 8, 3) >>,
      << FormRow(2, 8, 0) >>,
      << FormRow(2, 8, 3), FormRow(3, 1, 5) >>,
      << FormRow(1, 1, 3), FormRow(2, 0, 3) >>,
      Replicate(FormRow(2, 1, 3), MAX_ROWS + 1) }

InvoiceForm(invoice_kind, person_token, rows) ==
    [invoice_kind |-> invoice_kind, inv_number |-> NoNumber,
     person_token |-> person_token, person_code |-> NoCode, rows |-> rows]

InvoiceForms ==
    {InvoiceForm(k, 1, rows) : k \in {"", "purchase"}, rows \in InvoiceRowLists}
    \cup {InvoiceForm("", 2, << FormRow(2, 8, 3), FormRow(3, 1, 5) >>)}

-----------------------------------------------------------------------------
(* Initial state *)

\* Fiscal years are named by their start date, a day number; none is 0.
NoYear == 0

InitAccounts ==
    << [code |-> <<100>>, name |-> "assets", parent_id |-> 0, locked |-> TRUE],
       [code |-> <<100, 1>>, name |-> "cash", parent_id |-> 1, locked |-> FALSE] >>

\* The threads of the process that call the rates updater's start and stop
Callers == {"c1", "c2"}

InitCashBoxes ==
    << [name |-> "till", kind |-> "cash", is_active |-> TRUE,
        bank_name |-> "", account_no |-> ""],
       [name |-> "bank", kind |-> "bank", is_active |-> TRUE,
        bank_name |-> "melli", account_no |-> "111"] >>

Init ==
    /\ users = InitUsers
    /\ allow_negative_sales = FALSE
    /\ entities = InitEntities
    /\ invoices = <<>>
    /\ invoice_lines = <<>>
    /\ price_history = <<>>
    /\ cash_boxes = InitCashBoxes
    /\ cash_docs = <<>>
    /\ ledger_entries = <<>>
    /\ AI_PENDING_TASKS = <<>>
    /\ tokens_issued = 0
    /\ files = [p \in {"app.py", "notes.txt"} |->
                  IF p = "app.py" THEN [exists |-> TRUE, text |-> <<"v1">>]
                  ELSE [exists |-> FALSE, text |-> <<>>]]
    /\ now = 0
    /\ req = [op |-> "none"]
    /\ resp = [status |-> "none"]
    /\ accounts = InitAccounts
    /\ audit_events = <<>>
    /\ fiscal_year_current = NoYear
    /\ fiscal_years = <<>>
    /\ fiscal_cases = <<>>
    /\ _updater_thread = 0
    /\ _stop_event = 0
    /\ events = <<>>
    /\ threads = <<>>
    /\ callers = [c \in Callers |-> [pc |-> "idle"]]
    /\ sessions = {}
    /\ workers = <<>>
    /\ assistant_settings = [enable_auto_create |-> FALSE, drafts |-> <<>>]

-----------------------------------------------------------------------------
(* The invoice route alone *)

NextInvoice ==
    \/ \E u \in {"admin", "seller"}, kind_arg \in {"", "purchase"},
          form \in InvoiceForms :
          unified_invoice(u, "/invoice", kind_arg, form)
    \/ \E allow \in BOOLEAN : settings_stub("admin", allow)

SpecInvoice == Init /\ [][NextInvoice]_vars

-----------------------------------------------------------------------------
(* Claims about the invoice route *)

\* The kind of invoice a request to the route would record.
RecordedKind(r) == InvoiceKindOfForm(r.form.invoice_kind, InvoiceKindOfQuery(r.kind))

\* The rows the route takes from a form: its first MAX_ROWS valid rows.
ProcessedRows(form_rows) ==
    LET valid == SelectSeq(form_rows, RowValid)
    IN SubSeq(valid, 1, Min(Len(valid), MAX_ROWS))

SummedQty(rows, item) ==
    SumSeq([i \in 1..Len(rows) |-> IF RowItem(rows[i]) = item THEN rows[i].qty ELSE 0])

ExceedsStock(form_rows) ==
    \E item \in EntityIds :
        SummedQty(ProcessedRows(form_rows), item) > entities[item].stock_qty + Eps

\* C1: with allow-negative-sales off, a POST that records a sales invoice whose
\* processed rows (at most MAX_ROWS) ask, for some item, for more than its
\* stock_qty plus 1e-6 is rejected: no Invoice or InvoiceLine row is added, and
\* every stock_qty, every balance and every PriceHistory row stays as it was.
C1_OversoldSaleRejected ==
    [][ ( /\ req'.op = "invoice"
          /\ ~allow_negative_sales
          /\ RecordedKind(req') = "sales"
          /\ ExceedsStock(req'.form.rows) )
        => ( /\ resp'.status \in {"rejected", "forbidden", "login"}
             /\ invoices' = invoices
             /\ invoice_lines' = invoice_lines
             /\ entities' = entities
             /\ price_history' = price_history ) ]_vars

\* A sale refused for stock although each of its two rows alone fits the stock.
C1_Witness ==
    /\ req.op = "invoice"
    /\ resp.status = "rejected"
    /\ resp.reason = "stock"
    /\ ~allow_negative_sales
    /\ Len(req.form.rows) = 2
    /\ \A i \in 1..2 : /\ RowValid(req.form.rows[i])
                       /\ req.form.rows[i].qty <=
                            entities[RowItem(req.form.rows[i])].stock_qty
    /\ invoices = <<>>

\* The kind a request asks for, by query parameter, route alias or form field.
AsksForPurchase(r) ==
    \/ r.kind = "purchase"
    \/ r.path = "/purchase"
    \/ r.form.invoice_kind = "purchase"

SalesOnlyUser(u) ==
    /\ load_user(u) # ""
    /\ ~is_admin(u)
    /\ "sales" \in user_permissions(u)
    /\ "purchase" \notin user_permissions(u)

\* A request the route would turn into an invoice, permissions aside.
WouldRecord(r) == InvoicePost(InvoiceKindOfQuery(r.kind), r.form).status = "created"

\* C2: every request of a non-admin user with "sales" but without "purchase"
\* that would record a purchase invoice (the kind given by query parameter,
\* route alias or form field) is answered forbidden, and no invoice is created.
C2_PurchaseForbidden ==
    [][ ( /\ req'.op = "invoice"
          /\ SalesOnlyUser(req'.user)
          /\ AsksForPurchase(req')
          /\ WouldRecord(req') )
        => ( /\ resp'.status = "forbidden"
             /\ invoices' = invoices ) ]_vars

\* C5: an accepted purchase invoice adds each line's quantity to its item's
\* stock_qty, takes the total off the person's balance, and inserts or updates
\* no PriceHistory row.
C5_PurchaseEffects ==
    [][ ( /\ req'.op = "invoice"
          /\ resp'.status = "created"
          /\ resp'.form_kind = "purchase" )
        => LET inv == invoices'[resp'.invoice_id]
               lines == SelectSeq(invoice_lines',
                                  LAMBDA l : l.invoice_id = resp'.invoice_id)
           IN /\ \A e \in EntityIds :
                    entities'[e].stock_qty = entities[e].stock_qty +
                        SumSeq([i \in 1..Len(lines) |->
                                  IF lines[i].item_id = e THEN lines[i].qty ELSE 0])
              /\ entities'[inv.person_id].balance =
                    entities[inv.person_id].balance - inv.total
              /\ price_history' = price_history ]_vars

-----------------------------------------------------------------------------
(* The unified cash-document route and the admin's edit of a cash document *)

\* _to_float(x, default): an absent, empty or unparsable field is <<>>.
_to_float(x, default) == IF x = <<>> THEN default ELSE x[1]

\* kind from the query parameter, else from the path, else "receive".
CashKindOfRequest(kind_arg, path) ==
    IF kind_arg # "" THEN kind_arg
    ELSE IF path = "/receive" THEN "receive"
    ELSE IF path = "/payment" THEN "payment"
    ELSE "receive"

\* form_kind = request.form.get("cash_kind", kind)
CashKindOfForm(field, kind) == IF field = "" THEN kind ELSE field

CashMethod(field) ==
    IF field \in {"pos", "cash", "bank", "cheque"} THEN field ELSE "cash"

\* CashBox.query.get(id), dropped when the box is not active; 0 is None.
FormCashBox(cashbox_id) ==
    IF cashbox_id \in 1..Len(cash_boxes) /\ cash_boxes[cashbox_id].is_active
    THEN cashbox_id ELSE 0

\* "".join(ch for ch in field if ch.isdigit()); a character is "d" (a digit)
\* or anything else.
OnlyDigits(field) == SelectSeq(field, LAMBDA ch : ch = "d")

CashNumbers == {cash_docs[i].number : i \in 1..Len(cash_docs)}

\* receive takes the amount off the person's balance, anything else adds it
CashBalanceAfter(doc_type, balance, amount) ==
    IF doc_type = "receive" THEN balance - amount ELSE balance + amount

\* Whether a cheque document is refused, and why ("" = accepted).
ChequeRefusal(method, cashbox, cheque_number) ==
    IF method # "cheque" THEN ""
    ELSE IF cashbox = 0 \/ cash_boxes[cashbox].kind # "bank" THEN "cashbox"
    ELSE IF Len(cheque_number) # ChequeDigits THEN "cheque_number"
    ELSE ""

\* What the route does with an authorised POST.
CashPost(kind, form) ==
    LET form_kind == CashKindOfForm(form.cash_kind, kind)
        doc_number == IF kind = "receive" THEN jalali_reference("RCV", now)
                      ELSE jalali_reference("PAY", now)
        number == IF form.doc_number = NoNumber THEN doc_number ELSE form.doc_number
        person == FormEntity("person", form.person_token, form.person_code)
        amount == _to_float(form.amount, 0)
        method == CashMethod(form.method)
        cashbox == FormCashBox(form.cashbox_id)
        digits == OnlyDigits(form.cheque_number)
        refusal == ChequeRefusal(method, cashbox, digits)
        doc == [doc_type |-> form_kind, number |-> number, person_id |-> person,
                amount |-> amount, method |-> method, note |-> form.note,
                cashbox_id |-> cashbox,
                cheque_number |-> IF method = "cheque" THEN digits ELSE <<>>]
        same == [status |-> "rejected", reason |-> "", form_kind |-> form_kind,
                 entities |-> entities, cash_docs |-> cash_docs]
    IN IF person = 0 \/ entities[person].type # "person"
       THEN [same EXCEPT !.reason = "person"]
       ELSE IF amount <= 0
       THEN [same EXCEPT !.reason = "amount"]
       ELSE IF refusal # ""
       THEN [same EXCEPT !.reason = refusal]
       ELSE IF number \in CashNumbers
       THEN [same EXCEPT !.status = "error", !.reason = "number"]
       ELSE [status |-> "created", reason |-> "", form_kind |-> form_kind,
             entities |-> [entities EXCEPT ![person].balance =
                              CashBalanceAfter(form_kind, entities[person].balance, amount)],
             cash_docs |-> Append(cash_docs, doc)]

\* POST /cash_doc (aliases /receive, /payment)
unified_cash(user_id, path, kind_arg, form) ==
    LET u == load_user(user_id)
        kind == CashKindOfRequest(kind_arg, path)
        out == CashPost(kind, form)
    IN /\ Len(cash_docs) < MaxCashDocs
       /\ req' = [op |-> "cash", user |-> user_id, path |-> path,
                  kind |-> kind_arg, form |-> form]
       /\ IF u = ""
          THEN resp' = [status |-> "login"] /\ UNCHANGED <<entities, cash_docs>>
          ELSE IF ~ensure_permission(u, {kind})
          THEN resp' = [status |-> "forbidden"] /\ UNCHANGED <<entities, cash_docs>>
          ELSE /\ resp' = [status |-> out.status, reason |-> out.reason,
                           form_kind |-> out.form_kind,
                           doc_id |-> IF out.status = "created"
                                      THEN Len(cash_docs) + 1 ELSE 0]
               /\ entities' = out.entities
               /\ cash_docs' = out.cash_docs
       /\ UNCHANGED <<yearVars, updaterVars, webVars>>
       /\ UNCHANGED <<users, allow_negative_sales, invoices, invoice_lines,
                      price_history, cash_boxes, ledger_entries,
                      AI_PENDING_TASKS, tokens_issued, files, now>>

\* The document after the edit form is applied to it.
EditedDoc(doc, form) ==
    [doc EXCEPT !.amount = _to_float(form.amount, doc.amount),
                !.note = form.note,
                !.method = IF form.method \in {"pos", "cash", "bank", "cheque"}
                           THEN form.method ELSE doc.method]

\* POST /cash/<doc_id>/edit
cash_edit(user_id, doc_id, form) ==
    LET u == load_user(user_id)
    IN /\ req' = [op |-> "cash_edit", user |-> user_id, doc_id |-> doc_id,
                  form |-> form]
       /\ IF u = ""
          THEN resp' = [status |-> "login"] /\ UNCHANGED cash_docs
          ELSE IF ~is_admin(u)
          THEN resp' = [status |-> "forbidden"] /\ UNCHANGED cash_docs
          ELSE IF doc_id \notin 1..Len(cash_docs)
          THEN resp' = [status |-> "notfound"] /\ UNCHANGED cash_docs
          ELSE IF _to_float(form.amount, cash_docs[doc_id].amount) <= 0
          THEN resp' = [status |-> "rejected"] /\ UNCHANGED cash_docs
          ELSE /\ resp' = [status |-> "saved"]
               /\ cash_docs' = [cash_docs EXCEPT ![doc_id] = EditedDoc(@, form)]
       /\ UNCHANGED <<yearVars, updaterVars, webVars>>
       /\ UNCHANGED <<users, allow_negative_sales, entities, invoices,
                      invoice_lines, price_history, cash_boxes, ledger_entries,
                      AI_PENDING_TASKS, tokens_issued, files, now>>

-----------------------------------------------------------------------------
(* The cash routes alone *)

\* A cheque number as typed: digits in groups of four, with or without dashes.
ChequeTyped(ndigits, dashed) ==
    [i \in 1..(ndigits + (IF dashed THEN (ndigits - 1) \div 4 ELSE 0)) |->
        IF dashed /\ i % 5 = 0 THEN "-" ELSE "d"]

CashForm(cash_kind, person_token, amount, method, cashbox_id, cheque_number) ==
    [cash_kind |-> cash_kind, doc_number |-> NoNumber,
     person_token |-> person_token, person_code |-> NoCode,
     amount |-> amount, method |-> method, note |-> "",
     cashbox_id |-> cashbox_id, cheque_number |-> cheque_number]

CashForms ==
    { CashForm("", 1, <<5>>, "cash", 1, <<>>),
      CashForm("payment", 1, <<5>>, "", 0, <<>>),
      CashForm("receive", 1, <<5>>, "pos", 0, ChequeTyped(ChequeDigits, FALSE)),
      CashForm("", 1, <<5>>, "cheque", 2, ChequeTyped(ChequeDigits, TRUE)),
      CashForm("", 1, <<5>>, "cheque", 1, ChequeTyped(ChequeDigits, FALSE)),
      CashForm("", 1, <<5>>, "cheque", 2, ChequeTyped(ChequeDigits - 1, FALSE)),
      CashForm("", 1, <<>>, "cash", 1, <<>>),
      CashForm("", 2, <<5>>, "cash", 1, <<>>) }

EditForm(amount, method) == [amount |-> amount, note |-> "", method |-> method]

EditForms ==
    { EditForm(<<>>, ""), EditForm(<<7>>, "bank"), EditForm(<<0>>, "cheque"),
      EditForm(<<>>, "cheque") }

\* The addresses the cash form is posted to: path and kind query parameter.
CashAddresses == { <<"/cash_doc", "">>, <<"/payment", "">>, <<"/cash_doc", "sales">> }

NextCash ==
    \/ \E u \in Usernames, a \in CashAddresses, form \in CashForms :
          unified_cash(u, a[1], a[2], form)
    \/ \E u \in {"admin", "teller"}, doc_id \in 1..MaxCashDocs, form \in EditForms :
          cash_edit(u, doc_id, form)

SpecCash == Init /\ [][NextCash]_vars

-----------------------------------------------------------------------------
(* Claims about cash documents *)

\* The doc_type a request to the cash route would record.
RecordedCashKind(r) == CashKindOfForm(r.form.cash_kind, CashKindOfRequest(r.kind, r.path))

\* A request the cash route would turn into a document, permissions aside.
WouldRecordCash(r) == CashPost(CashKindOfRequest(r.kind, r.path), r.form).status = "created"

\* C3: a non-admin user creates a receive document only with the "receive"
\* permission and a payment document only with the "payment" permission; a
\* request for a document of a type the user lacks the permission for is
\* answered forbidden, adds no CashDoc row and changes no balance.
C3_CashKindNeedsPermission ==
    [][ ( /\ req'.op = "cash"
          /\ load_user(req'.user) # ""
          /\ ~is_admin(req'.user)
          /\ RecordedCashKind(req') \in {"receive", "payment"}
          /\ RecordedCashKind(req') \notin user_permissions(req'.user)
          /\ WouldRecordCash(req') )
        => ( /\ resp'.status = "forbidden"
             /\ cash_docs' = cash_docs
             /\ entities' = entities ) ]_vars

\* C7: every CashDoc whose method is "cheque" is bound to a cashbox of kind
\* "bank" and carries a cheque_number of exactly 16 digits.
C7_ChequeBoundToBank ==
    \A d \in 1..Len(cash_docs) :
        cash_docs[d].method = "cheque"
        => /\ cash_docs[d].cashbox_id # 0
           /\ cash_boxes[cash_docs[d].cashbox_id].kind = "bank"
           /\ Len(cash_docs[d].cheque_number) = ChequeDigits
           /\ \A i \in 1..ChequeDigits : cash_docs[d].cheque_number[i] = "d"

-----------------------------------------------------------------------------
(* The hash-chained ledger *)

\* A reading of datetime.utcnow(): the minute on the wall clock and the
\* microseconds gone by since the call began.
Stamp(minute, micros) == [minute |-> minute, micros |-> micros]

\* datetime.isoformat(): the text of a timestamp, different for different
\* timestamps.
isoformat(dt) == <<"T", dt.minute, dt.micros>>

\* No hash (None); also the empty text that `prev_hash or ""` turns it into.
NoHash == <<>>

\* sha256 over prev_hash (or "") + ts_iso + payload_text, taken as free of
\* collisions: the digest is the triple of what was fed in.
_compute_entry_hash(prev_hash, payload_text, ts_iso) ==
    << prev_hash, ts_iso, payload_text >>

\* The created_at a new LedgerEntry row gets: record_ledger passes none, so the
\* column default datetime.utcnow runs at insert time, `lag` microseconds after
\* record_ledger read the clock for ts.
LedgerCreatedAt(ts, lag) == Stamp(ts.minute, ts.micros + lag)

\* The row record_ledger adds to a ledger table.
LedgerRowIn(ledger, object_type, object_id, action, payload_text, lag) ==
    LET n == Len(ledger)
        prev == IF n > 0 THEN ledger[n].hash ELSE NoHash
        ts == Stamp(now, 0)
    IN [created_at |-> LedgerCreatedAt(ts, lag),
        object_type |-> object_type, object_id |-> object_id, action |-> action,
        payload |-> payload_text, prev_hash |-> prev,
        hash |-> _compute_entry_hash(prev, payload_text, isoformat(ts))]

LedgerRow(object_type, object_id, action, payload_text, lag) ==
    LedgerRowIn(ledger_entries, object_type, object_id, action, payload_text, lag)

LedgerHashes == {ledger_entries[i].hash : i \in 1..Len(ledger_entries)}

\* record_ledger(object_type, object_id, action, payload); payload_text is the
\* JSON text of the payload.  The hash column is unique: a duplicate fails the
\* commit and the call raises.
record_ledger(object_type, object_id, action, payload_text, lag) ==
    LET row == LedgerRow(object_type, object_id, action, payload_text, lag)
    IN /\ Len(ledger_entries) < MaxLedger
       /\ req' = [op |-> "ledger", object_type |-> object_type,
                  object_id |-> object_id, action |-> action,
                  payload |-> payload_text]
       /\ IF row.hash \in LedgerHashes
          THEN resp' = [status |-> "error"] /\ UNCHANGED ledger_entries
          ELSE resp' = [status |-> "recorded"]
               /\ ledger_entries' = Append(ledger_entries, row)
       /\ UNCHANGED <<yearVars, updaterVars, webVars>>
       /\ UNCHANGED <<users, allow_negative_sales, entities, invoices,
                      invoice_lines, price_history, cash_boxes, cash_docs,
                      AI_PENDING_TASKS, tokens_issued, files, now>>

\* The wall clock moves on by d minutes; no request is handled meanwhile.
AdvanceTime(d) ==
    /\ now + d <= MaxNow
    /\ now' = now + d
    /\ req' = [op |-> "none"]
    /\ resp' = [status |-> "none"]
    /\ UNCHANGED <<yearVars, updaterVars, webVars>>
    /\ UNCHANGED <<users, allow_negative_sales, entities, invoices,
                   invoice_lines, price_history, cash_boxes, cash_docs,
                   ledger_entries, AI_PENDING_TASKS, tokens_issued, files>>

NextLedger ==
    \/ \E object_type \in {"invoice", "cashdoc"}, payload_text \in {"{}", "{..}"},
          lag \in 0..MaxLag :
          record_ledger(object_type, 1, "create", payload_text, lag)
    \/ AdvanceTime(TicketTTL)

SpecLedger == Init /\ [][NextLedger]_vars

\* C4: for every stored LedgerEntry, sha256 over (prev_hash or "") + the ISO
\* text of the stored created_at + the stored payload is the stored hash.
C4_HashRecomputable ==
    \A i \in 1..Len(ledger_entries) :
        LET e == ledger_entries[i]
        IN _compute_entry_hash(e.prev_hash, e.payload, isoformat(e.created_at)) = e.hash

-----------------------------------------------------------------------------
(* Entities as the assistant resolves and creates them *)

\* lower() of one character
LowerCh(ch) == IF ch = "A" THEN "a" ELSE IF ch = "R" THEN "r" ELSE ch

\* SQL LIKE on lower-cased text: "%" stands for any run of characters and "_"
\* for any one character.
RECURSIVE Like(_, _)
Like(pattern, text) ==
    IF pattern = <<>> THEN text = <<>>
    ELSE IF Head(pattern) = "%"
    THEN Like(Tail(pattern), text) \/ (text # <<>> /\ Like(pattern, Tail(text)))
    ELSE /\ text # <<>>
         /\ Head(pattern) = "_" \/ LowerCh(Head(pattern)) = LowerCh(Head(text))
         /\ Like(Tail(pattern), Tail(text))

\* Entity.name.ilike(name)
ilike(entity_name, name) == Like(name, entity_name)

\* The first row of a query, by id; 0 is None.
First(ids) == IF ids = {} THEN 0 ELSE CHOOSE e \in ids : \A f \in ids : e <= f

\* _resolve_entity(kind, payload) on a table ents: by numeric code, then by name
\* (ILIKE).  Codes in payloads are digit strings or empty.
ResolveIn(ents, kind, payload) ==
    LET by_code == IF payload.code # NoCode
                   THEN First({e \in 1..Len(ents) :
                                 ents[e].type = kind /\ ents[e].code = payload.code})
                   ELSE 0
        by_name == IF payload.name # <<>>
                   THEN First({e \in 1..Len(ents) :
                                 ents[e].type = kind /\ ilike(ents[e].name, payload.name)})
                   ELSE 0
    IN [name |-> payload.name, code |-> payload.code,
        entity |-> IF by_code # 0 THEN by_code ELSE by_name]

_resolve_entity(kind, payload) == ResolveIn(entities, kind, payload)

\* whether seq p is a prefix of seq c
IsPrefix(p, c) == Len(p) <= Len(c) /\ SubSeq(c, 1, Len(p)) = p

\* _generate_entity_code(kind, preferred) on a table ents
_generate_entity_code(ents, kind, preferred) ==
    LET taken == \E e \in 1..Len(ents) : ents[e].type = kind /\ ents[e].code = preferred
        prefix == IF Len(preferred) > 1
                  THEN SubSeq(preferred, 1, Len(preferred) - 1) ELSE <<>>
        target_level == IF Len(preferred) > 1 THEN Len(preferred)
                        ELSE IF kind = "person" THEN 1 ELSE 3
        existing == {ents[e].code[Len(prefix) + 1] :
                       e \in {x \in 1..Len(ents) :
                                /\ ents[x].type = kind
                                /\ Len(ents[x].code) = target_level
                                /\ IsPrefix(prefix, ents[x].code)}}
        candidate == CHOOSE c \in 100..(100 + Cardinality(existing)) :
                        /\ c \notin existing
                        /\ \A d \in 100..(c - 1) : d \in existing
        code == prefix \o <<candidate>>
    IN IF preferred # NoCode /\ ~taken THEN preferred
       ELSE code \o [i \in 1..(target_level - Len(code)) |-> 0]

\* The parent an entity of this code gets: the entity of the same type whose
\* code is this code without its last three digits, or none (0).  The level
\* of a code (_level_by_code) is the number of its 3-digit groups.
ParentByCode(ents, kind, code) ==
    IF Len(code) <= 1 THEN 0
    ELSE First({e \in 1..Len(ents) :
                  /\ ents[e].type = kind
                  /\ ents[e].code = SubSeq(code, 1, Len(code) - 1)})

\* _ensure_entity(kind, data) on a table ents: the entity found or added
\* (flushed), the table after it, and whether it raised for an empty name.
_ensure_entity(ents, kind, data) ==
    LET by_code == IF data.code # NoCode
                   THEN First({e \in 1..Len(ents) :
                                 ents[e].type = kind /\ ents[e].code = data.code})
                   ELSE 0
        by_name == First({e \in 1..Len(ents) :
                            ents[e].type = kind /\ ents[e].name = data.name})
        existing == IF by_code # 0 THEN by_code ELSE by_name
        final_code == _generate_entity_code(ents, kind, data.code)
        ent == [type |-> kind, code |-> final_code, name |-> data.name,
                parent_id |-> ParentByCode(ents, kind, final_code),
                stock_qty |-> 0, balance |-> 0]
    IN IF data.name = <<>>
       THEN [raised |-> TRUE, entity |-> 0, ents |-> ents]
       ELSE IF existing # 0
       THEN [raised |-> FALSE, entity |-> existing, ents |-> ents]
       ELSE [raised |-> FALSE, entity |-> Len(ents) + 1, ents |-> Append(ents, ent)]

-----------------------------------------------------------------------------
(* Invoice plans of the assistant *)

\* The preview entry _prepare_invoice_plan makes of one named row.
PreviewEntry(row) ==
    [name |-> row.name, code |-> row.code, qty |-> row.qty,
     unit_price |-> row.unit_price,
     line_total |-> row.qty * row.unit_price,
     entity_id |-> _resolve_entity("item", [name |-> row.name, code |-> row.code]).entity]

\* _prepare_invoice_plan(invoice_data)
_prepare_invoice_plan(invoice_data) ==
    LET kind == IF invoice_data.kind \in {"sales", "purchase"}
                THEN invoice_data.kind ELSE "sales"
        partner_info == _resolve_entity("person", invoice_data.partner)
        named == SelectSeq(invoice_data.items, LAMBDA row : row.name # <<>>)
        items_preview == [i \in 1..Len(named) |-> PreviewEntry(named[i])]
    IN [kind |-> kind,
        number |-> invoice_data.number,
        partner |-> [name |-> partner_info.name, code |-> partner_info.code,
                     entity_id |-> partner_info.entity],
        items |-> items_preview,
        missing_items |-> SelectSeq(items_preview, LAMBDA e : e.entity_id = 0),
        total |-> SumSeq([i \in 1..Len(items_preview) |-> items_preview[i].line_total]),
        missing_partner |-> partner_info.entity = 0]

\* The item of a plan row: Entity.query.get(entity_id), else _ensure_entity.
PlanItem(ents, row) ==
    IF row.entity_id \in 1..Len(ents)
    THEN [raised |-> FALSE, entity |-> row.entity_id, ents |-> ents]
    ELSE _ensure_entity(ents, "item", row)

\* The first loop of _apply_invoice_plan: rows with qty > 0 get their item
\* (found or created) and, for a sale, a check of that row alone against the
\* item's current stock.  acc = [ents, items, raised].
RECURSIVE PlanRows(_, _, _, _)
RECURSIVE PlanRowFound(_, _, _, _, _)
PlanRows(plan_items, i, kind, acc) ==
    IF i > Len(plan_items) \/ acc.raised # "" THEN acc
    ELSE IF plan_items[i].qty <= 0 THEN PlanRows(plan_items, i + 1, kind, acc)
    ELSE PlanRowFound(plan_items, i, kind, acc, PlanItem(acc.ents, plan_items[i]))

PlanRowFound(plan_items, i, kind, acc, found) ==
    IF found.raised THEN [acc EXCEPT !.raised = "name"]
    ELSE IF /\ kind = "sales"
            /\ ~allow_negative_sales
            /\ StockShort(found.ents[found.entity].stock_qty, plan_items[i].qty)
    THEN [acc EXCEPT !.raised = "stock"]
    ELSE PlanRows(plan_items, i + 1, kind,
                  [ents |-> found.ents,
                   items |-> Append(acc.items,
                        [item |-> found.entity, qty |-> plan_items[i].qty,
                         unit_price |-> plan_items[i].unit_price]),
                   raised |-> ""])

\* Only a sale records the line's price.
PlanTouchesPrice(kind) == kind = "sales"

\* The second loop of _apply_invoice_plan: lines, stock, price history.
RECURSIVE PlanLines(_, _, _, _, _, _)
PlanLines(items, i, kind, person, inv_id, st) ==
    IF i > Len(items) THEN st
    ELSE LET r == items[i]
             line == [invoice_id |-> inv_id, item_id |-> r.item, qty |-> r.qty,
                      unit_price |-> r.unit_price, line_total |-> r.qty * r.unit_price]
         IN PlanLines(items, i + 1, kind, person, inv_id,
               [lines |-> Append(st.lines, line),
                ents |-> [st.ents EXCEPT ![r.item].stock_qty =
                              StockAfter(kind, st.ents[r.item].stock_qty, r.qty)],
                ph |-> IF PlanTouchesPrice(kind)
                       THEN UpsertPrice(st.ph, person, r.item, r.unit_price)
                       ELSE st.ph])

\* A total the plan accepts although it is zero.
PlanTotalRefusedBelowZero(total) == total < 0

\* float(total) <= 0
PlanTotalRefused(total) == total <= 0

\* _apply_invoice_plan raised: the caller rolls everything back.
PlanFailed(raised) ==
    [raised |-> raised, invoice_id |-> 0, entities |-> entities,
     invoices |-> invoices, invoice_lines |-> invoice_lines,
     price_history |-> price_history, ledger_entries |-> ledger_entries]

\* The partner of a plan: Entity.query.get(entity_id), else _ensure_entity.
PlanPartner(plan) ==
    IF EntityGet(plan.partner.entity_id) # 0
    THEN [raised |-> FALSE, entity |-> plan.partner.entity_id, ents |-> entities]
    ELSE _ensure_entity(entities, "person", plan.partner)

\* The plan's number, or a generated one when it is empty or already used.
PlanNumber(plan) ==
    IF plan.number = NoNumber \/ plan.number \in InvoiceNumbers
    THEN generate_invoice_number ELSE plan.number

\* The commit of _apply_invoice_plan and the ledger entry written after it.
PlanCommit(kind, lag, person, items, done, number, total) ==
    [raised |-> "", invoice_id |-> Len(invoices) + 1,
     entities |-> [done.ents EXCEPT ![person].balance =
                      BalanceAfter(kind, done.ents[person].balance, total)],
     invoices |-> Append(invoices, [number |-> number, person_id |-> person,
                                    kind |-> kind, total |-> total]),
     invoice_lines |-> done.lines,
     price_history |-> done.ph,
     ledger_entries |-> Append(ledger_entries,
         LedgerRow("invoice", Len(invoices) + 1, "create",
                   [invoice_id |-> Len(invoices) + 1, number |-> number,
                    kind |-> kind, total |-> total, partner_id |-> person,
                    lines |-> [i \in 1..Len(items) |->
                                 [item_id |-> items[i].item, qty |-> items[i].qty,
                                  unit_price |-> items[i].unit_price]]],
                   lag))]

\* _apply_invoice_plan once the rows are scanned.
PlanStore(plan, lag, person, scan) ==
    IF scan.raised # "" THEN PlanFailed(scan.raised)
    ELSE IF scan.items = <<>> THEN PlanFailed("rows")
    ELSE IF PlanTotalRefused(RowsTotal(scan.items)) THEN PlanFailed("total")
    ELSE IF PlanNumber(plan) \in InvoiceNumbers THEN PlanFailed("number")
    ELSE PlanCommit(plan.kind, lag, person, scan.items,
                    PlanLines(scan.items, 1, plan.kind, person, Len(invoices) + 1,
                              [lines |-> invoice_lines, ents |-> scan.ents,
                               ph |-> price_history]),
                    PlanNumber(plan), RowsTotal(scan.items))

\* _apply_invoice_plan once the partner is known.
PlanWithPartner(plan, lag, partner) ==
    IF partner.raised THEN PlanFailed("name")
    ELSE PlanStore(plan, lag, partner.entity,
                   PlanRows(plan.items, 1, plan.kind,
                            [ents |-> partner.ents, items |-> <<>>, raised |-> ""]))

\* _apply_invoice_plan(plan): whether it raised (everything rolled back), and
\* the tables after it; the ledger entry is written `lag` microseconds after
\* record_ledger read the clock.
_apply_invoice_plan(plan, lag) == PlanWithPartner(plan, lag, PlanPartner(plan))

-----------------------------------------------------------------------------
(* Cash plans of the assistant *)

\* _prepare_cash_plan(cash_data), read against the entity table ents
_prepare_cash_plan(ents, cash_data) ==
    LET person_info == ResolveIn(ents, "person", cash_data.person)
    IN [doc_type |-> IF cash_data.doc_type \in {"receive", "payment"}
                     THEN cash_data.doc_type ELSE "unknown",
        number |-> cash_data.number,
        person |-> [name |-> person_info.name, code |-> person_info.code,
                    entity_id |-> person_info.entity],
        amount |-> _to_float(cash_data.amount, 0),
        method |-> cash_data.method,
        bank_account |-> cash_data.bank_account,
        bank_name |-> cash_data.bank_name,
        cheque_number |-> cash_data.cheque_number,
        missing_person |-> person_info.entity = 0]

\* The active cashbox a plan names by account number, else by bank name.
PlanCashBox(plan) ==
    LET by_account == IF plan.bank_account = "" THEN 0
                      ELSE First({b \in 1..Len(cash_boxes) :
                                    /\ cash_boxes[b].account_no = plan.bank_account
                                    /\ cash_boxes[b].is_active})
        by_name == IF plan.bank_name = "" THEN 0
                   ELSE First({b \in 1..Len(cash_boxes) :
                                 /\ cash_boxes[b].bank_name = plan.bank_name
                                 /\ cash_boxes[b].is_active})
    IN IF by_account # 0 THEN by_account ELSE by_name

\* The person of a cash plan: by entity_id, else resolved, else created.
CashPlanPerson(ents, plan, resolved) ==
    IF plan.person.entity_id \in 1..Len(ents)
    THEN [raised |-> FALSE, entity |-> plan.person.entity_id, ents |-> ents]
    ELSE IF resolved # 0
    THEN [raised |-> FALSE, entity |-> resolved, ents |-> ents]
    ELSE _ensure_entity(ents, "person", plan.person)

CashPlanType(plan) ==
    IF plan.doc_type \in {"receive", "payment"} THEN plan.doc_type
    ELSE IF plan.amount >= 0 THEN "receive" ELSE "payment"

CashPlanNumber(plan) ==
    IF plan.number = NoNumber
    THEN jalali_reference(IF CashPlanType(plan) = "receive" THEN "RCV" ELSE "PAY", now)
    ELSE plan.number

\* _apply_cash_plan once the person, the cashbox and the number are known.
CashPlanStore(ents, docs, ledger, plan, lag, person, cb, doc_type, number) ==
    IF person.raised
    THEN [raised |-> "name", doc_id |-> 0, entities |-> ents,
          cash_docs |-> docs, ledger_entries |-> ledger]
    ELSE IF plan.amount <= 0
    THEN [raised |-> "amount", doc_id |-> 0, entities |-> ents,
          cash_docs |-> docs, ledger_entries |-> ledger]
    ELSE IF number \in {docs[i].number : i \in 1..Len(docs)}
    THEN [raised |-> "number", doc_id |-> 0, entities |-> ents,
          cash_docs |-> docs, ledger_entries |-> ledger]
    ELSE [raised |-> "", doc_id |-> Len(docs) + 1,
          entities |-> [person.ents EXCEPT ![person.entity].balance =
                           CashBalanceAfter(doc_type, person.ents[person.entity].balance,
                                            plan.amount)],
          cash_docs |-> Append(docs,
               [doc_type |-> doc_type, number |-> number,
                person_id |-> person.entity, amount |-> plan.amount,
                method |-> plan.method, note |-> "", cashbox_id |-> cb,
                cheque_number |-> plan.cheque_number]),
          ledger_entries |-> Append(ledger,
               LedgerRowIn(ledger, "cashdoc", Len(docs) + 1, "create",
                           [doc_id |-> Len(docs) + 1, number |-> number,
                            doc_type |-> doc_type, amount |-> plan.amount,
                            person_id |-> person.entity, cashbox_id |-> cb],
                           lag))]

\* _apply_cash_plan(plan) on the tables ents, docs, ledger: whether it raised
\* (everything rolled back), and the tables after it.
_apply_cash_plan(ents, docs, ledger, plan, lag) ==
    CashPlanStore(ents, docs, ledger, plan, lag,
                  CashPlanPerson(ents, plan, ResolveIn(ents, "person", plan.person).entity),
                  PlanCashBox(plan), CashPlanType(plan), CashPlanNumber(plan))

-----------------------------------------------------------------------------
(* Pending tickets *)

\* _cleanup_ai_tasks(): drop the tasks whose expires_at is before now
_cleanup_ai_tasks(tasks) ==
    LET kept == {t \in DOMAIN tasks : ~(tasks[t].expires_at < now)}
    IN [t \in kept |-> tasks[t]]

\* _register_ai_task(username, payload); secrets.token_hex(16) is taken as
\* never repeating: the n-th token is n.
_register_ai_task(tasks, token, username, payload) ==
    LET cleaned == _cleanup_ai_tasks(tasks)
    IN [t \in DOMAIN cleaned \cup {token} |->
          IF t = token
          THEN [username |-> username, payload |-> payload,
                created_at |-> now, expires_at |-> now + TicketTTL]
          ELSE cleaned[t]]

\* A ticket that anybody may redeem.
TaskOwnedByAnyone(data, username) == TRUE

\* data.get("username") == username
TaskOwnedBy(data, username) == data.username = username

\* _pop_ai_task(username, token): the payload (<<>> is None) and the store
\* after the call.
_pop_ai_task(tasks, username, token) ==
    LET cleaned == _cleanup_ai_tasks(tasks)
    IN IF token \notin DOMAIN cleaned
       THEN [payload |-> <<>>, tasks |-> cleaned]
       ELSE IF ~TaskOwnedBy(cleaned[token], username)
       THEN [payload |-> <<>>, tasks |-> cleaned]
       ELSE [payload |-> <<cleaned[token].payload>>,
             tasks |-> [t \in DOMAIN cleaned \ {token} |-> cleaned[t]]]

-----------------------------------------------------------------------------
(* File actions of the assistant *)

NoFile == [exists |-> FALSE, text |-> <<>>]

\* _resolve_project_path: only relative paths inside the project resolve; the
\* project's paths are the domain of files.
PathResolves(fs, rel_path) == rel_path \in DOMAIN fs

\* One action applied to the tree fs; an action without a usable operation,
\* path or content fails and leaves the tree alone.  content is <<>> when the
\* action carries none, else <<text>>.
ApplyAction(fs, action) ==
    IF action.operation = "" \/ action.path = "" \/ ~PathResolves(fs, action.path)
    THEN [fs |-> fs, applied |-> 0]
    ELSE IF action.operation = "write_file" /\ action.content # <<>>
    THEN [fs |-> [fs EXCEPT ![action.path] = [exists |-> TRUE, text |-> action.content]],
          applied |-> 1]
    ELSE IF action.operation = "append_file" /\ action.content # <<>>
    THEN [fs |-> [fs EXCEPT ![action.path] =
                    [exists |-> TRUE, text |-> fs[action.path].text \o action.content]],
          applied |-> 1]
    ELSE IF action.operation = "delete_path"
    THEN [fs |-> [fs EXCEPT ![action.path] = NoFile], applied |-> 1]
    ELSE [fs |-> fs, applied |-> 0]

\* _apply_assistant_actions(actions): the tree after them and how many applied
RECURSIVE _apply_assistant_actions(_, _)
_apply_assistant_actions(fs, actions) ==
    IF actions = <<>> THEN [fs |-> fs, applied |-> 0]
    ELSE LET one == ApplyAction(fs, Head(actions))
             rest == _apply_assistant_actions(one.fs, Tail(actions))
         IN [fs |-> rest.fs, applied |-> one.applied + rest.applied]

-----------------------------------------------------------------------------
(* The assistant's chat and apply endpoints *)

\* The chat request before any plan is handled.
ChatStart(needs_confirmation) ==
    [needs_confirmation |-> needs_confirmation, applied |-> FALSE,
     apply_error |-> "", ticket |-> 0, tasks |-> AI_PENDING_TASKS,
     invoice_id |-> 0, cash_id |-> 0,
     entities |-> entities, invoices |-> invoices, invoice_lines |-> invoice_lines,
     price_history |-> price_history, cash_docs |-> cash_docs,
     ledger_entries |-> ledger_entries]

\* The plan waits for confirmation: a ticket is registered, unless the request
\* already has one.
ChatTicket(u, st, plan, apply_error) ==
    [st EXCEPT !.needs_confirmation = TRUE,
               !.apply_error = apply_error,
               !.ticket = IF st.ticket # 0 THEN st.ticket ELSE tokens_issued + 1,
               !.tasks = IF st.ticket # 0 THEN st.tasks
                         ELSE _register_ai_task(st.tasks, tokens_issued + 1, u,
                                  [plan |-> plan, apply_error |-> apply_error])]

\* The invoice plan was applied at once: out is what _apply_invoice_plan did.
ChatInvoiceTried(u, st, plan, out) ==
    IF out.raised # "" THEN ChatTicket(u, st, plan, out.raised)
    ELSE [st EXCEPT !.applied = TRUE, !.invoice_id = out.invoice_id,
                    !.entities = out.entities, !.invoices = out.invoices,
                    !.invoice_lines = out.invoice_lines,
                    !.price_history = out.price_history,
                    !.ledger_entries = out.ledger_entries]

\* The invoice part of the chat handler.
ChatInvoicePlanned(u, st, plan, lag) ==
    IF st.needs_confirmation \/ plan.missing_partner \/ plan.missing_items # <<>>
    THEN ChatTicket(u, st, plan, "")
    ELSE ChatInvoiceTried(u, st, plan, _apply_invoice_plan(plan, lag))

ChatInvoice(u, result, lag) ==
    IF result.invoice = <<>> THEN ChatStart(result.needs_confirmation)
    ELSE ChatInvoicePlanned(u, ChatStart(result.needs_confirmation),
                            _prepare_invoice_plan(result.invoice[1]), lag)

\* The cash plan was applied at once: out is what _apply_cash_plan did.
ChatCashTried(u, st, cplan, out) ==
    IF out.raised # ""
    THEN ChatTicket(u, st, cplan, out.raised)
    ELSE [st EXCEPT !.applied = TRUE, !.cash_id = out.doc_id,
                    !.entities = out.entities, !.cash_docs = out.cash_docs,
                    !.ledger_entries = out.ledger_entries]

\* The cash part of the chat handler, after the invoice part left st.
ChatCashPlanned(u, st, cplan, lag) ==
    IF \/ st.needs_confirmation
       \/ cplan.missing_person
       \/ (cplan.bank_account = "" /\ cplan.method = "bank")
    THEN ChatTicket(u, st, cplan, st.apply_error)
    ELSE ChatCashTried(u, st, cplan,
             _apply_cash_plan(st.entities, st.cash_docs, st.ledger_entries, cplan, lag))

ChatCash(u, result, lag, st) ==
    IF result.cash = <<>> THEN st
    ELSE ChatCashPlanned(u, st, _prepare_cash_plan(st.entities, result.cash[1]), lag)

\* The response of the chat handler and what it leaves behind: out is the
\* outcome of its invoice and cash parts, done that of its file actions.
ChatRespond(user_id, result, out, done) ==
    /\ tokens_issued < MaxTickets
    /\ req' = [op |-> "chat", user |-> user_id, result |-> result]
    /\ IF load_user(user_id) = "" \/ ~ensure_permission(load_user(user_id), {"assistant"})
       THEN /\ resp' = [status |-> IF load_user(user_id) = "" THEN "login"
                                   ELSE "forbidden"]
            /\ UNCHANGED <<entities, invoices, invoice_lines, price_history,
                           cash_docs, ledger_entries, AI_PENDING_TASKS,
                           tokens_issued, files>>
       ELSE /\ resp' = [status |-> "ok",
                        needs_confirmation |-> out.needs_confirmation,
                        ticket |-> out.ticket, applied |-> out.applied,
                        invoice_id |-> out.invoice_id, cash_id |-> out.cash_id,
                        apply_error |-> out.apply_error,
                        actions_applied |-> done.applied > 0]
            /\ entities' = out.entities
            /\ invoices' = out.invoices
            /\ invoice_lines' = out.invoice_lines
            /\ price_history' = out.price_history
            /\ cash_docs' = out.cash_docs
            /\ ledger_entries' = out.ledger_entries
            /\ AI_PENDING_TASKS' = out.tasks
            /\ tokens_issued' = IF out.ticket # 0 THEN out.ticket ELSE tokens_issued
            /\ files' = done.fs
    /\ Len(invoices') <= MaxInvoices
    /\ Len(cash_docs') <= MaxCashDocs
    /\ Len(ledger_entries') <= MaxLedger
    /\ UNCHANGED <<yearVars, updaterVars, webVars>>
    /\ UNCHANGED <<users, allow_negative_sales, cash_boxes, now>>

\* POST /assistant/api/chat with messages to which the language model answered
\* `result`; the API key is configured.  A ledger entry written by the request
\* is inserted `lag` microseconds after record_ledger read the clock.
assistant_chat(user_id, result, lag) ==
    ChatRespond(user_id, result,
                ChatCash(load_user(user_id), result, lag,
                         ChatInvoice(load_user(user_id), result, lag)),
                _apply_assistant_actions(files, result.actions))

\* plan.get("items")
IsInvoicePlan(plan) == "items" \in DOMAIN plan /\ plan.items # <<>>

\* plan.get("amount") is not None and plan.get("person")
IsCashPlan(plan) == "amount" \in DOMAIN plan

\* An apply request that fails before any plan is applied.
ApplyError(reason, tasks) ==
    [status |-> "error", reason |-> reason, invoice_id |-> 0, cash_id |-> 0,
     tasks |-> tasks, entities |-> entities, invoices |-> invoices,
     invoice_lines |-> invoice_lines, price_history |-> price_history,
     cash_docs |-> cash_docs, ledger_entries |-> ledger_entries]

\* The ticket held an invoice plan: out is what _apply_invoice_plan did.
ApplyInvoiceDone(out, tasks) ==
    [ApplyError(out.raised, tasks) EXCEPT
        !.status = IF out.raised = "" THEN "ok" ELSE "error",
        !.invoice_id = out.invoice_id,
        !.entities = out.entities, !.invoices = out.invoices,
        !.invoice_lines = out.invoice_lines, !.price_history = out.price_history,
        !.ledger_entries = out.ledger_entries]

\* The ticket held a cash plan: out is what _apply_cash_plan did.
ApplyCashDone(out, tasks) ==
    [ApplyError(out.raised, tasks) EXCEPT
        !.status = IF out.raised = "" THEN "ok" ELSE "error",
        !.cash_id = out.doc_id,
        !.entities = out.entities, !.cash_docs = out.cash_docs,
        !.ledger_entries = out.ledger_entries]

ApplyPlan(plan, tasks, lag) ==
    IF IsInvoicePlan(plan) THEN ApplyInvoiceDone(_apply_invoice_plan(plan, lag), tasks)
    ELSE IF IsCashPlan(plan)
    THEN ApplyCashDone(_apply_cash_plan(entities, cash_docs, ledger_entries, plan, lag),
                       tasks)
    ELSE ApplyError("plan", tasks)

ApplyPopped(popped, lag) ==
    IF popped.payload = <<>> THEN ApplyError("ticket", popped.tasks)
    ELSE ApplyPlan(popped.payload[1].plan, popped.tasks, lag)

\* What an authorised apply request does.
ApplyOutcome(u, token, lag) ==
    IF token = 0 THEN ApplyError("no ticket", AI_PENDING_TASKS)
    ELSE ApplyPopped(_pop_ai_task(AI_PENDING_TASKS, u, token), lag)

ApplyRespond(user_id, token, out) ==
    /\ req' = [op |-> "apply", user |-> user_id, ticket |-> token]
    /\ IF load_user(user_id) = "" \/ ~ensure_permission(load_user(user_id), {"assistant"})
       THEN /\ resp' = [status |-> IF load_user(user_id) = "" THEN "login"
                                   ELSE "forbidden"]
            /\ UNCHANGED <<entities, invoices, invoice_lines, price_history,
                           cash_docs, ledger_entries, AI_PENDING_TASKS>>
       ELSE /\ resp' = [status |-> out.status, reason |-> out.reason,
                        invoice_id |-> out.invoice_id, cash_id |-> out.cash_id]
            /\ entities' = out.entities
            /\ invoices' = out.invoices
            /\ invoice_lines' = out.invoice_lines
            /\ price_history' = out.price_history
            /\ cash_docs' = out.cash_docs
            /\ ledger_entries' = out.ledger_entries
            /\ AI_PENDING_TASKS' = out.tasks
    /\ Len(invoices') <= MaxInvoices
    /\ Len(cash_docs') <= MaxCashDocs
    /\ Len(ledger_entries') <= MaxLedger
    /\ UNCHANGED <<yearVars, updaterVars, sessions, assistant_settings>>
    /\ UNCHANGED <<users, allow_negative_sales, cash_boxes, tokens_issued,
                   files, now>>

\* POST /assistant/api/apply with a ticket (0 is the empty token)
assistant_apply(user_id, token, lag) ==
    /\ ApplyRespond(user_id, token, ApplyOutcome(load_user(user_id), token, lag))
    /\ UNCHANGED workers

-----------------------------------------------------------------------------
(* The assistant alone *)

PlanRow(name, qty, unit_price) ==
    [name |-> name, code |-> NoCode, qty |-> qty, unit_price |-> unit_price]

InvoiceData(kind, partner_name, partner_code, items) ==
    [kind |-> kind, number |-> NoNumber,
     partner |-> [name |-> partner_name, code |-> partner_code], items |-> items]

CashData(doc_type, person_name, amount, method) ==
    [doc_type |-> doc_type, number |-> NoNumber,
     person |-> [name |-> person_name, code |-> NoCode],
     amount |-> amount, method |-> method, bank_account |-> "", bank_name |-> "",
     cheque_number |-> <<>>]

FileAction(operation, path, content) ==
    [operation |-> operation, path |-> path, content |-> content]

Result(needs_confirmation, invoice, cash, actions) ==
    [needs_confirmation |-> needs_confirmation, invoice |-> invoice,
     cash |-> cash, actions |-> actions]

\* What the language model may answer.
AssistantResults ==
    LET reza == <<"R", "e", "z", "a">>
        pen == <<"p", "e", "n">>
    IN { Result(FALSE, <<InvoiceData("sales", reza, NoCode, <<PlanRow(pen, 2, 3)>>)>>, <<>>, <<>>),
         Result(FALSE, <<InvoiceData("sales", reza, <<100>>, <<PlanRow(pen, 2, 3)>>)>>, <<>>, <<>>),
         Result(FALSE, <<InvoiceData("purchase", <<"%">>, NoCode, <<PlanRow(pen, 2, 3)>>)>>, <<>>, <<>>),
         Result(FALSE, <<>>, <<CashData("payment", reza, <<5>>, "cash")>>, <<>>),
         Result(FALSE, <<>>, <<>>,
                << FileAction("write_file", "notes.txt", <<"x">>),
                   FileAction("delete_path", "app.py", <<>>),
                   FileAction("append_file", "../x", <<"x">>) >>) }

\* The ledger's timing is explored by SpecLedger; here every ledger row is
\* inserted MaxLag microseconds after the clock was read.
NextAssistant ==
    \/ \E result \in AssistantResults :
          assistant_chat("seller", result, MaxLag)
    \/ \E u \in {"seller", "teller"}, token \in 0..(MaxTickets + 1) :
          assistant_apply(u, token, MaxLag)
    \/ \E d \in {TicketTTL, TicketTTL + 1} : AdvanceTime(d)

SpecAssistant == Init /\ [][NextAssistant]_vars

-----------------------------------------------------------------------------
(* Claims about the assistant *)

\* Two names that differ at most in the case of their letters.
SameName(a, b) ==
    /\ Len(a) = Len(b)
    /\ \A i \in 1..Len(a) : LowerCh(a[i]) = LowerCh(b[i])

NameMatchesNoEntity(name) == \A e \in EntityIds : ~SameName(entities[e].name, name)

\* C8: when the model proposes an invoice whose partner name matches no
\* existing Entity, the chat response has needs_confirmation = true, carries a
\* ticket, and the request creates or changes no Entity, Invoice, InvoiceLine,
\* PriceHistory or CashDoc row.
C8_UnknownPartnerWaits ==
    [][ ( /\ req'.op = "chat"
          /\ req'.result.invoice # <<>>
          /\ NameMatchesNoEntity(req'.result.invoice[1].partner.name) )
        => ( /\ resp'.needs_confirmation
             /\ resp'.ticket # 0
             /\ UNCHANGED dbVars ) ]_vars

\* A ticket that must not be redeemed by `user`: unknown or already redeemed,
\* registered more than TicketTTL minutes ago, or registered by somebody else.
BadTicket(user, token) ==
    \/ token \notin DOMAIN AI_PENDING_TASKS
    \/ now - AI_PENDING_TASKS[token].created_at > TicketTTL
    \/ AI_PENDING_TASKS[token].username # user

C10_ChatLeavesFilesAlone ==
    [][ req'.op = "chat" => files' = files ]_vars

-----------------------------------------------------------------------------
(* Invoices by both ways in: the unified route and the assistant *)

TotalsForms ==
    { InvoiceForm("", 1, << FormRow(2, 8, 0) >>),
      InvoiceForm("", 1, << FormRow(2, 1, 3), FormRow(3, 1, 0) >>) }

TotalsResults ==
    LET ali == <<"a", "l", "i">>
        pen == <<"p", "e", "n">>
        ink == <<"i", "n", "k">>
    IN { Result(FALSE, <<InvoiceData("sales", ali, NoCode, <<PlanRow(pen, 2, 0)>>)>>, <<>>, <<>>),
         Result(TRUE, <<InvoiceData("purchase", ali, NoCode,
                                    <<PlanRow(pen, 2, 0 - 3), PlanRow(ink, 0, 5)>>)>>, <<>>, <<>>),
         Result(TRUE, <<InvoiceData("sales", ali, NoCode,
                                    <<PlanRow(pen, 1, 3), PlanRow(ink, 1, 0)>>)>>, <<>>, <<>>) }

NextTotals ==
    \/ \E kind_arg \in {"", "purchase"}, form \in TotalsForms :
          unified_invoice("admin", "/invoice", kind_arg, form)
    \/ \E result \in TotalsResults : assistant_chat("seller", result, MaxLag)
    \/ \E token \in 1..MaxTickets : assistant_apply("seller", token, MaxLag)

SpecTotals == Init /\ [][NextTotals]_vars

\* The total of the rows a submission brings: quantity times unit price, summed
\* over the rows that count.
RouteSubmissionTotal(form) ==
    SumSeq([i \in 1..Len(ProcessedRows(form.rows)) |->
              ProcessedRows(form.rows)[i].qty * ProcessedRows(form.rows)[i].unit_price])

PlanSubmissionTotal(items) ==
    SumSeq([i \in 1..Len(items) |->
              IF items[i].name # <<>> /\ items[i].qty > 0
              THEN items[i].qty * items[i].unit_price ELSE 0])

\* An invoice submission whose total is not positive, seen from the state
\* before it is handled: a POST to the route, a chat that proposes an invoice,
\* or the redeeming of a ticket that holds an invoice plan.
SubmitsNoTotal(r) ==
    \/ r.op = "invoice" /\ RouteSubmissionTotal(r.form) <= 0
    \/ /\ r.op = "chat"
       /\ r.result.invoice # <<>>
       /\ PlanSubmissionTotal(r.result.invoice[1].items) <= 0
    \/ /\ r.op = "apply"
       /\ r.ticket \in DOMAIN AI_PENDING_TASKS
       /\ IsInvoicePlan(AI_PENDING_TASKS[r.ticket].payload.plan)
       /\ PlanSubmissionTotal(AI_PENDING_TASKS[r.ticket].payload.plan.items) <= 0

\* The response says the submission was stored.
Accepted(r, answer) ==
    \/ r.op = "invoice" /\ answer.status = "created"
    \/ r.op = "chat" /\ answer.status = "ok" /\ answer.applied
    \/ r.op = "apply" /\ answer.status = "ok"

\* C6: no invoice submission whose total is <= 0 is accepted, by the unified
\* route or by the assistant: it leaves no Invoice or InvoiceLine row behind,
\* and every stored Invoice has total > 0.
C6_NoInvoiceWithoutTotal ==
    [][ /\ SubmitsNoTotal(req')
           => ( /\ ~Accepted(req', resp')
                /\ invoices' = invoices
                /\ invoice_lines' = invoice_lines )
        /\ \A i \in 1..Len(invoices') : invoices'[i].total > 0 ]_vars

\* A ticket holding a zero-total plan was redeemed and refused for its total.
C6_Witness ==
    /\ req.op = "apply"
    /\ resp.status = "error"
    /\ resp.reason = "total"
    /\ \A i \in 1..Len(invoices) : invoices[i].total > 0

-----------------------------------------------------------------------------
(* Sales plans of the assistant against the stock *)

StockResults ==
    LET ali == <<"a", "l", "i">>
        pen == <<"p", "e", "n">>
        ink == <<"i", "n", "k">>
    IN { Result(nc, <<InvoiceData("sales", ali, NoCode, rows)>>, <<>>, <<>>) :
            nc \in BOOLEAN,
            rows \in { <<PlanRow(pen, 8, 3), PlanRow(pen, 8, 3)>>,
                       <<PlanRow(pen, 15, 3)>>,
                       <<PlanRow(pen, 3, 3), PlanRow(ink, 1, 5)>> } }

NextStock ==
    \/ \E result \in StockResults : assistant_chat("seller", result, MaxLag)
    \/ \E token \in 1..MaxTickets : assistant_apply("seller", token, MaxLag)
    \/ \E allow \in BOOLEAN : settings_stub("admin", allow)

SpecStock == Init /\ [][NextStock]_vars

\* The invoice plan a request puts before _apply_invoice_plan: the one a chat
\* prepares from the model's answer, or the one held by the ticket redeemed.
\* It has no rows when the request brings no invoice plan.
SubmittedPlan(r) ==
    IF r.op = "chat" /\ r.result.invoice # <<>>
    THEN _prepare_invoice_plan(r.result.invoice[1])
    ELSE IF /\ r.op = "apply"
            /\ r.ticket \in DOMAIN AI_PENDING_TASKS
            /\ AI_PENDING_TASKS[r.ticket].username = r.user
            /\ IsInvoicePlan(AI_PENDING_TASKS[r.ticket].payload.plan)
    THEN AI_PENDING_TASKS[r.ticket].payload.plan
    ELSE [kind |-> "none", items |-> <<>>]

\* The quantity the plan's rows ask of one existing item, all rows together.
PlanQty(plan, item) ==
    SumSeq([i \in 1..Len(plan.items) |->
              IF plan.items[i].entity_id = item /\ plan.items[i].qty > 0
              THEN plan.items[i].qty ELSE 0])

\* A sales plan the manual route's stock check would turn down.
PlanExceedsStock(plan) ==
    /\ plan.kind = "sales"
    /\ \E e \in EntityIds :
          /\ entities[e].type = "item"
          /\ PlanQty(plan, e) - entities[e].stock_qty > Eps

\* C11: with allow-negative-sales off, a sales plan whose rows for some item
\* together exceed that item's stock by more than 1e-6 is not applied: the
\* request fails, creates no rows, and no item's stock falls below -1e-6.
C11_PlanStockChecked ==
    [][ ( /\ ~allow_negative_sales
          /\ PlanExceedsStock(SubmittedPlan(req')) )
        => ( /\ ~Accepted(req', resp')
             /\ UNCHANGED dbVars
             /\ \A e \in EntityIds : entities'[e].stock_qty >= 0 - Eps ) ]_vars

-----------------------------------------------------------------------------
(* Invoices and the ledger *)

\* The ledger holds a "create" entry for invoice i.
InvoiceLedgered(i) ==
    \E j \in 1..Len(ledger_entries) :
        /\ ledger_entries[j].object_type = "invoice"
        /\ ledger_entries[j].action = "create"
        /\ ledger_entries[j].object_id = i

\* C12: every invoice created, by the unified route or by the assistant, has
\* a LedgerEntry with object_type "invoice", action "create" and its id once
\* the request that created it is over.
C12_InvoiceLedgered ==
    \A i \in 1..Len(invoices) : InvoiceLedgered(i)

-----------------------------------------------------------------------------
(* The fiscal-year blueprint (src/blueprints/backup.py) *)

\* date.today(), as a day number; the model's clock never reaches midnight
Today == 3

\* parse_gregorian_date(value, allow_none=...): a date field is <<>> when it is
\* empty or unreadable, else <<d>>; the result is 0 for None.
parse_gregorian_date(value, allow_none) ==
    IF value # <<>> THEN value[1] ELSE IF allow_none THEN 0 ELSE Today

\* parse_jalali_date has the contract of parse_gregorian_date; a Jalali date
\* is written here as the day it names.
parse_jalali_date(value, allow_none) ==
    IF value # <<>> THEN value[1] ELSE IF allow_none THEN 0 ELSE Today

\* to_jdate_str(d): the Jalali text of a day, written as the day itself
to_jdate_str(d) == d

\* _year_key(value): the folder name of a label; "unknown" and "current" are 0
_year_key(value) == value

\* f with f[k] = v
Put(f, k, v) == [x \in (DOMAIN f) \cup {k} |-> IF x = k THEN v ELSE f[x]]

\* Whether key a comes no later than key b; keys are tuples of numbers of one
\* length, compared part by part.
RECURSIVE KeyLeq(_, _)
KeyLeq(a, b) ==
    IF a = <<>> THEN TRUE
    ELSE IF Head(a) # Head(b) THEN Head(a) < Head(b)
    ELSE KeyLeq(Tail(a), Tail(b))

\* The rows of s in the order of their keys (keys[i] is the key of s[i]), rows
\* of equal key in their old order: ORDER BY and sorted().
RECURSIVE SortedIndices(_, _)
SortedIndices(keys, n) ==
    IF n = 0 THEN <<>>
    ELSE LET before == SortedIndices(keys, n - 1)
             at == Cardinality({i \in 1..Len(before) : KeyLeq(keys[before[i]], keys[n])})
         IN SubSeq(before, 1, at) \o <<n>> \o SubSeq(before, at + 1, Len(before))

SortByKey(s, keys) ==
    LET order == SortedIndices(keys, Len(s))
    IN [i \in 1..Len(s) |-> s[order[i]]]

\* The sort key (level, code) of accounts, and (type, level, code) of
\* entities; a code of fewer than three groups is filled up with zeros, which
\* the level before it tells apart.
LevelCodeKey(code) ==
    <<Len(code)>> \o [i \in 1..3 |-> IF i <= Len(code) THEN code[i] ELSE 0]

TypeLevelCodeKey(type, code) ==
    <<IF type = "item" THEN 0 ELSE 1>> \o LevelCodeKey(code)

\* The alphabetical place of a cash box's name among the names of the model.
NameKey(name) == <<IF name = "bank" THEN 1 ELSE 2>>

\* _find_year_entry(years, start_value): the index of the entry, or 0
_find_year_entry(years, start_value) ==
    IF start_value = NoYear THEN 0
    ELSE First({i \in 1..Len(years) : years[i].start = start_value})

\* The master data _snapshot_current_year writes to snapshot.json.
SnapshotPayload ==
    [accounts |->
        SortByKey([i \in 1..Len(accounts) |->
                     [code |-> accounts[i].code, name |-> accounts[i].name,
                      locked |-> accounts[i].locked,
                      parent_code |-> IF accounts[i].parent_id \in 1..Len(accounts)
                                      THEN accounts[accounts[i].parent_id].code
                                      ELSE NoCode]],
                  [i \in 1..Len(accounts) |-> LevelCodeKey(accounts[i].code)]),
     entities |->
        SortByKey([i \in 1..Len(entities) |->
                     [type |-> entities[i].type, code |-> entities[i].code,
                      name |-> entities[i].name,
                      parent_code |-> IF entities[i].parent_id \in 1..Len(entities)
                                      THEN entities[entities[i].parent_id].code
                                      ELSE NoCode,
                      stock_qty |-> entities[i].stock_qty,
                      balance |-> entities[i].balance]],
                  [i \in 1..Len(entities) |->
                     TypeLevelCodeKey(entities[i].type, entities[i].code)]),
     cashboxes |->
        SortByKey(cash_boxes, [i \in 1..Len(cash_boxes) |-> NameKey(cash_boxes[i].name)]),
     price_history |->
        LET joined == SelectSeq(price_history, LAMBDA ph :
                         /\ entities[ph.person_id].type = "person"
                         /\ entities[ph.item_id].type = "item")
        IN [i \in 1..Len(joined) |->
              [last_price |-> joined[i].last_price,
               person_code |-> entities[joined[i].person_id].code,
               item_code |-> entities[joined[i].item_id].code]]]

\* _snapshot_current_year(years): the case folders after the snapshot of the
\* active year is written; a year that is not registered is filed under its
\* own value, no year at all under "current".
_snapshot_current_year(years) ==
    LET entry == _find_year_entry(years, fiscal_year_current)
        key == IF entry # 0 THEN years[entry].key ELSE _year_key(fiscal_year_current)
    IN Put(fiscal_cases, key, SnapshotPayload)

\* _load_snapshot_by_start(years, start_value): <<>> for None, else <<snapshot>>
_load_snapshot_by_start(cases, years, start_value) ==
    LET entry == _find_year_entry(years, start_value)
    IN IF entry = 0 THEN <<>>
       ELSE IF years[entry].key \notin DOMAIN cases THEN <<>>
       ELSE << cases[years[entry].key] >>

\* A reset that clears the stock and forgets the balances.
ResetKeepsBalances(ents) ==
    [i \in 1..Len(ents) |-> [ents[i] EXCEPT !.stock_qty = 0]]

\* _reset_transactions(): the entities after UPDATE ... SET stock_qty = 0,
\* balance = 0; the five DELETEs empty their tables.  new_year runs the same
\* UPDATE once more when it imports no snapshot.
_reset_transactions(ents) ==
    [i \in 1..Len(ents) |-> [ents[i] EXCEPT !.stock_qty = 0, !.balance = 0]]

\* The id a code has in rows already inserted (code_to_id.get), 0 for none.
IdOfCode(rows, code) ==
    IF code = NoCode THEN 0
    ELSE First({i \in 1..Len(rows) : rows[i].code = code})

\* _apply_accounts(accounts_data): the table after DELETE and the INSERTs
RECURSIVE InsertAccounts(_, _)
InsertAccounts(data, done) ==
    IF data = <<>> THEN done
    ELSE InsertAccounts(Tail(data),
            Append(done, [code |-> Head(data).code, name |-> Head(data).name,
                          parent_id |-> IdOfCode(done, Head(data).parent_code),
                          locked |-> Head(data).locked]))

_apply_accounts(accounts_data) ==
    InsertAccounts(SortByKey(accounts_data,
                      [i \in 1..Len(accounts_data) |-> LevelCodeKey(accounts_data[i].code)]),
                   <<>>)

\* The id (type, code) has in rows already inserted, 0 for none.
IdOfTypeCode(rows, type, code) ==
    IF code = NoCode THEN 0
    ELSE First({i \in 1..Len(rows) : rows[i].type = type /\ rows[i].code = code})

\* _apply_entities(entities_data, keep_balances=...)
RECURSIVE InsertEntities(_, _, _)
InsertEntities(data, keep_balances, done) ==
    IF data = <<>> THEN done
    ELSE InsertEntities(Tail(data), keep_balances,
            Append(done,
               [type |-> Head(data).type, code |-> Head(data).code,
                name |-> Head(data).name,
                parent_id |-> IdOfTypeCode(done, Head(data).type, Head(data).parent_code),
                stock_qty |-> IF keep_balances THEN Head(data).stock_qty ELSE 0,
                balance |-> IF keep_balances THEN Head(data).balance ELSE 0]))

_apply_entities(entities_data, keep_balances) ==
    InsertEntities(SortByKey(entities_data,
                      [i \in 1..Len(entities_data) |->
                         TypeLevelCodeKey(entities_data[i].type, entities_data[i].code)]),
                   keep_balances, <<>>)

\* _apply_price_history(price_data, code_map): rows whose person and item
\* codes are both in the code map of the entities just inserted
_apply_price_history(price_data, ents) ==
    LET known == SelectSeq(price_data, LAMBDA row :
                    /\ IdOfTypeCode(ents, "person", row.person_code) # 0
                    /\ IdOfTypeCode(ents, "item", row.item_code) # 0)
    IN [i \in 1..Len(known) |->
          [person_id |-> IdOfTypeCode(ents, "person", known[i].person_code),
           item_id |-> IdOfTypeCode(ents, "item", known[i].item_code),
           last_price |-> known[i].last_price]]

\* The carry-forward of new_year: the master tables after the chosen parts of
\* the snapshot are imported over the reset tables.
CarryForward(snapshot, carry_options, reset_entities) ==
    LET with_entities == "entities" \in carry_options /\ snapshot.entities # <<>>
        ents == IF with_entities
                THEN _apply_entities(snapshot.entities, "balances" \in carry_options)
                ELSE reset_entities
    IN [accounts |-> IF "accounts" \in carry_options /\ snapshot.accounts # <<>>
                     THEN _apply_accounts(snapshot.accounts) ELSE accounts,
        entities |-> ents,
        cash_boxes |-> IF "cashboxes" \in carry_options /\ snapshot.cashboxes # <<>>
                       THEN snapshot.cashboxes ELSE cash_boxes,
        price_history |-> IF /\ "prices" \in carry_options
                             /\ snapshot.price_history # <<>>
                             /\ with_entities
                          THEN _apply_price_history(snapshot.price_history, ents)
                          ELSE <<>>]

\* The registered years after new_year adds start_iso: unchanged when the
\* start is registered already, newest first.
RegisterYear(years, start_iso, jalali_label) ==
    LET added == IF \E i \in 1..Len(years) : years[i].start = start_iso
                 THEN years
                 ELSE Append(years, [start |-> start_iso, key |-> _year_key(jalali_label)])
    IN SortByKey(added, [i \in 1..Len(added) |-> <<0 - added[i].start>>])

\* The tables and settings after new_year went through to its commit.
YearCommitted(start_iso, jalali_label, master) ==
    /\ accounts' = master.accounts
    /\ entities' = master.entities
    /\ cash_boxes' = master.cash_boxes
    /\ price_history' = master.price_history
    /\ invoice_lines' = <<>>
    /\ invoices' = <<>>
    /\ cash_docs' = <<>>
    /\ audit_events' = <<>>
    /\ fiscal_year_current' = start_iso
    /\ fiscal_years' = RegisterYear(fiscal_years, start_iso, jalali_label)

\* new_year left by a redirect after db.session.rollback()
YearRolledBack ==
    UNCHANGED <<accounts, entities, cash_boxes, price_history, invoice_lines,
                invoices, cash_docs, audit_events, fiscal_year_current, fiscal_years>>

\* POST /backup/new-year.  The full backup archive made first and its
\* BackupLog row are outside the tables of this model.
new_year(user_id, form) ==
    LET u == load_user(user_id)
        typed == parse_gregorian_date(form.start_date, TRUE)
        start_greg == IF typed # 0 THEN typed
                      ELSE parse_jalali_date(form.start_date_fa, FALSE)
        jalali_label == IF form.start_date_fa # <<>> THEN form.start_date_fa[1]
                        ELSE to_jdate_str(start_greg)
        snapshot == _load_snapshot_by_start(_snapshot_current_year(fiscal_years),
                                            fiscal_years, form.carry_from)
        reset == _reset_transactions(entities)
    IN /\ req' = [op |-> "new_year", user |-> user_id, form |-> form]
       /\ IF u = ""
          THEN /\ resp' = [status |-> "login"]
               /\ YearRolledBack
               /\ UNCHANGED fiscal_cases
          ELSE IF start_greg = 0
          THEN /\ resp' = [status |-> "rejected", reason |-> "start"]
               /\ YearRolledBack
               /\ UNCHANGED fiscal_cases
          ELSE /\ fiscal_cases' = _snapshot_current_year(fiscal_years)
               /\ IF form.mode = "carry" /\ form.carry_from = NoYear
                  THEN /\ resp' = [status |-> "rejected", reason |-> "carry_from"]
                       /\ YearRolledBack
                  ELSE IF form.mode = "carry" /\ snapshot = <<>>
                  THEN /\ resp' = [status |-> "rejected", reason |-> "snapshot"]
                       /\ YearRolledBack
                  ELSE /\ resp' = [status |-> "done", reason |-> ""]
                       /\ YearCommitted(start_greg, jalali_label,
                             IF form.mode = "carry"
                             THEN CarryForward(snapshot[1], form.carry_options, reset)
                             ELSE [accounts |-> accounts,
                                   entities |-> _reset_transactions(reset),
                                   cash_boxes |-> cash_boxes, price_history |-> <<>>])
       /\ UNCHANGED <<updaterVars, webVars>>
       /\ UNCHANGED <<users, allow_negative_sales, ledger_entries,
                      AI_PENDING_TASKS, tokens_issued, files, now>>

\* POST /api/audit/log: any signed-in user adds an audit event
api_audit_log(user_id, context) ==
    LET u == load_user(user_id)
    IN /\ Len(audit_events) < MaxAudit
       /\ req' = [op |-> "audit", user |-> user_id]
       /\ IF u = ""
          THEN resp' = [status |-> "login"] /\ UNCHANGED audit_events
          ELSE /\ resp' = [status |-> "ok"]
               /\ audit_events' = Append(audit_events,
                                         [user |-> user_id, context |-> context])
       /\ UNCHANGED <<updaterVars, webVars>>
       /\ UNCHANGED <<accounts, fiscal_year_current, fiscal_years, fiscal_cases>>
       /\ UNCHANGED <<users, allow_negative_sales, entities, invoices, invoice_lines,
                      price_history, cash_boxes, cash_docs, ledger_entries,
                      AI_PENDING_TASKS, tokens_issued, files, now>>

-----------------------------------------------------------------------------
(* A year of bookkeeping and its closing *)

YearForm(start_date, start_date_fa, mode, carry_from, carry_options) ==
    [start_date |-> start_date, start_date_fa |-> start_date_fa, mode |-> mode,
     carry_from |-> carry_from, carry_options |-> carry_options]

AllCarryOptions == {"accounts", "entities", "balances", "cashboxes", "prices"}

YearForms ==
    { YearForm(<<1>>, <<>>, "reset", NoYear, {}),
      YearForm(<<>>, <<2>>, "", NoYear, {}),
      YearForm(<<2>>, <<>>, "carry", 1, AllCarryOptions),
      YearForm(<<2>>, <<>>, "carry", 1, {"entities", "prices"}),
      YearForm(<<>>, <<>>, "carry", 2, AllCarryOptions),
      YearForm(<<2>>, <<>>, "carry", NoYear, AllCarryOptions) }

YearInvoiceForm == InvoiceForm("", 1, << FormRow(2, 8, 3), FormRow(3, 1, 5) >>)

YearCashForm == CashForm("", 1, <<5>>, "", 0, <<>>)

NextYear ==
    \/ \E form \in YearForms : new_year("seller", form)
    \/ unified_invoice("admin", "/invoice", "", YearInvoiceForm)
    \/ unified_cash("admin", "/payment", "", YearCashForm)
    \/ api_audit_log("seller", "invoice")

SpecYear == Init /\ [][NextYear]_vars

\* The request just handled was a new-fiscal-year request in reset mode.
ResetRequested(r) == r.op = "new_year" /\ r.form.mode # "carry"

\* C13: after a new-fiscal-year request in reset mode the tables
\* invoice_lines, invoices, cash_docs, price_history and audit_events are
\* empty and every Entity has stock_qty = 0 and balance = 0, while the Account
\* rows, the CashBox rows and each Entity's code, name and parent link are
\* what they were before the request.
C13_ResetEmptiesTheYear ==
    [][ ResetRequested(req')
        => ( /\ invoice_lines' = <<>> /\ invoices' = <<>> /\ cash_docs' = <<>>
             /\ price_history' = <<>> /\ audit_events' = <<>>
             /\ \A e \in 1..Len(entities') :
                    entities'[e].stock_qty = 0 /\ entities'[e].balance = 0
             /\ accounts' = accounts
             /\ cash_boxes' = cash_boxes
             /\ Len(entities') = Len(entities)
             /\ \A e \in EntityIds :
                    /\ entities'[e].type = entities[e].type
                    /\ entities'[e].code = entities[e].code
                    /\ entities'[e].name = entities[e].name
                    /\ entities'[e].parent_id = entities[e].parent_id ) ]_vars

\* A reset has just closed a year that had an invoice, a cash document, a
\* price, an audit event, stock taken and a balance owed.
C13_Witness ==
    /\ ResetRequested(req)
    /\ resp.status = "done"
    /\ invoices = <<>> /\ cash_docs = <<>> /\ audit_events = <<>>
    /\ DOMAIN fiscal_cases # {}
    /\ \E k \in DOMAIN fiscal_cases :
          /\ fiscal_cases[k].price_history # <<>>
          /\ \E i \in 1..Len(fiscal_cases[k].entities) :
                fiscal_cases[k].entities[i].balance # 0

\* The request just handled asked to carry a year forward whose snapshot is
\* not there (seen from the state before the request).
CarryWithoutSnapshot(r) ==
    /\ r.op = "new_year"
    /\ r.form.mode = "carry"
    /\ r.form.carry_from # NoYear
    /\ _load_snapshot_by_start(_snapshot_current_year(fiscal_years),
                               fiscal_years, r.form.carry_from) = <<>>

\* The start date a new-year form names.
FormStart(form) ==
    IF form.start_date # <<>> THEN form.start_date[1]
    ELSE IF form.start_date_fa # <<>> THEN form.start_date_fa[1] ELSE Today

\* C14: a new-fiscal-year request in carry mode whose referenced year has no
\* saved snapshot still applies the reset (transactional tables emptied, every
\* Entity's stock_qty and balance zeroed) and registers the new fiscal year as
\* current.
C14_CarryWithoutSnapshotResets ==
    [][ CarryWithoutSnapshot(req')
        => ( /\ invoice_lines' = <<>> /\ invoices' = <<>> /\ cash_docs' = <<>>
             /\ price_history' = <<>> /\ audit_events' = <<>>
             /\ \A e \in 1..Len(entities') :
                    entities'[e].stock_qty = 0 /\ entities'[e].balance = 0
             /\ fiscal_year_current' = FormStart(req'.form)
             /\ \E i \in 1..Len(fiscal_years') :
                    fiscal_years'[i].start = FormStart(req'.form) ) ]_vars

-----------------------------------------------------------------------------
(* The background updater of the rates (src/utils/rates.py) *)

\* Everything but the updater's own state
appVars == <<users, allow_negative_sales, entities, invoices, invoice_lines,
             price_history, cash_boxes, cash_docs, ledger_entries,
             AI_PENDING_TASKS, tokens_issued, files, now, req, resp, yearVars,
             webVars>>

\* Thread.is_alive(): the thread is somewhere in _updater_loop
is_alive(t) == t \in 1..Len(threads) /\ threads[t].pc # "dead"

At(c, pc) == callers[c].pc = pc

Goto(c, pc) == callers' = [callers EXCEPT ![c].pc = pc]

\* start_background_updater(), called by thread c, statement by statement:
\* the "already running" test, the new Event, the fetch of run_on_start, and
\* the new Thread stored in _updater_thread and started.
start_background_updater(c) ==
    /\ UNCHANGED appVars
    /\ \/ /\ At(c, "idle")
          /\ Goto(c, IF _updater_thread # 0 /\ is_alive(_updater_thread)
                     THEN "idle" ELSE "start_event")
          /\ UNCHANGED <<_updater_thread, _stop_event, events, threads>>
       \/ /\ At(c, "start_event")
          /\ Len(events) < MaxThreads
          /\ events' = Append(events, FALSE)
          /\ _stop_event' = Len(events) + 1
          /\ Goto(c, "start_fetch")
          /\ UNCHANGED <<_updater_thread, threads>>
       \/ /\ At(c, "start_fetch")
          /\ Goto(c, "start_thread")
          /\ UNCHANGED <<_updater_thread, _stop_event, events, threads>>
       \/ /\ At(c, "start_thread")
          /\ threads' = Append(threads, [pc |-> "loop"])
          /\ _updater_thread' = Len(threads) + 1
          /\ Goto(c, "idle")
          /\ UNCHANGED <<_stop_event, events>>

\* stop_background_updater(), called by thread c: the event is set, the
\* thread is joined for at most five seconds, the two globals are cleared.
\* The join returns when the thread has ended, and also while the thread is
\* inside fetch_and_update, whose two requests may take eight seconds each.
stop_background_updater(c) ==
    /\ UNCHANGED appVars
    /\ \/ /\ At(c, "idle")
          /\ IF _stop_event = 0
             THEN UNCHANGED <<events, callers>>
             ELSE events' = [events EXCEPT ![_stop_event] = TRUE] /\ Goto(c, "stop_join")
          /\ UNCHANGED <<_updater_thread, _stop_event, threads>>
       \/ /\ At(c, "stop_join")
          /\ IF _updater_thread = 0 THEN TRUE
             ELSE threads[_updater_thread].pc \in {"dead", "fetch"}
          /\ Goto(c, "stop_clear")
          /\ UNCHANGED <<_updater_thread, _stop_event, events, threads>>
       \/ /\ At(c, "stop_clear")
          /\ _updater_thread' = 0
          /\ _stop_event' = 0
          /\ Goto(c, "idle")
          /\ UNCHANGED <<events, threads>>

\* _updater_loop run by updater thread t.  Each test of the loop reads the
\* global _stop_event anew: None there raises AttributeError and ends the
\* thread, a set event ends the loop.
_updater_loop(t) ==
    /\ UNCHANGED appVars
    /\ UNCHANGED <<_updater_thread, _stop_event, events, callers>>
    /\ \/ /\ threads[t].pc = "loop"
          /\ threads' = [threads EXCEPT ![t].pc =
                            IF _stop_event = 0 THEN "dead"
                            ELSE IF events[_stop_event] THEN "dead" ELSE "fetch"]
       \/ /\ threads[t].pc = "fetch"
          /\ threads' = [threads EXCEPT ![t].pc = "sleep"]
       \/ /\ threads[t].pc = "sleep"
          /\ threads' = [threads EXCEPT ![t].pc = IF _stop_event = 0 THEN "dead" ELSE "loop"]

NextUpdater ==
    \/ \E c \in Callers : start_background_updater(c)
    \/ \E c \in Callers : stop_background_updater(c)
    \/ \E t \in 1..Len(threads) : _updater_loop(t)

SpecUpdater == Init /\ [][NextUpdater]_vars

\* C15: whatever the sequence and interleaving of start and stop calls, at
\* most one updater thread is executing the fetch-and-update loop.
C15_OneUpdaterThread ==
    Cardinality({t \in 1..Len(threads) : is_alive(t)}) <= 1

-----------------------------------------------------------------------------
(* A restart of the process: the module-level startup block of app.py *)

\* (inv.number or "").upper().startswith("INV-")
StartsWithInv(number) == number.text = "ref" /\ number.prefix = "INV"

\* The kind the backfill wants for an invoice, by its number alone
DesiredKind(inv) == IF StartsWithInv(inv.number) THEN "sales" ELSE "purchase"

BackfillKind(invs) ==
    [i \in 1..Len(invs) |-> [invs[i] EXCEPT !.kind = DesiredKind(invs[i])]]

\* The process ends and app.py is loaded again: the tables are kept by the
\* database, the tickets and the updater's globals live in memory and start
\* empty, and the backfill of invoices.kind runs over every stored invoice.
startup ==
    /\ invoices' = BackfillKind(invoices)
    /\ AI_PENDING_TASKS' = <<>>
    /\ _updater_thread' = 0
    /\ _stop_event' = 0
    /\ events' = <<>>
    /\ threads' = <<>>
    /\ callers' = [c \in Callers |-> [pc |-> "idle"]]
    /\ req' = [op |-> "startup"]
    /\ resp' = [status |-> "none"]
    /\ workers' = <<>>
    /\ UNCHANGED <<yearVars, sessions, assistant_settings>>
    /\ UNCHANGED <<users, allow_negative_sales, entities, invoice_lines,
                   price_history, cash_boxes, cash_docs, ledger_entries,
                   tokens_issued, files, now>>

NextRestart ==
    \/ \E kind_arg \in {"", "purchase"}, form \in TotalsForms :
          unified_invoice("admin", "/invoice", kind_arg, form)
    \/ \E result \in StockResults : assistant_chat("seller", result, MaxLag)
    \/ \E token \in 1..MaxTickets : assistant_apply("seller", token, MaxLag)
    \/ startup

SpecRestart == Init /\ [][NextRestart]_vars

\* C16: once an invoice is stored, its header and its lines keep their values
\* across every later request and every restart of the process.
C16_InvoiceKeepsItsValues ==
    [][ /\ \A i \in 1..Len(invoices) :
              i <= Len(invoices') /\ invoices'[i] = invoices[i]
        /\ \A l \in 1..Len(invoice_lines) :
              l <= Len(invoice_lines') /\ invoice_lines'[l] = invoice_lines[l] ]_vars

-----------------------------------------------------------------------------
(* What an accepted sales invoice of the route leaves behind *)

SalesForms ==
    { InvoiceForm(k, 1, rows) :
        k \in {"", "purchase"},
        rows \in { << FormRow(2, 3, 3), FormRow(2, 2, 4) >>,
                   << FormRow(2, 8, 3), FormRow(3, 1, 5) >>,
                   << FormRow(3, 1, 5) >>,
                   << FormRow(2, 2, 0), FormRow(3, 1, 6) >> } }

NextSales ==
    \/ \E u \in {"admin", "seller"}, path \in {"/invoice", "/sales", "/purchase"},
          form \in SalesForms :
          unified_invoice(u, path, "", form)
    \/ \E allow \in BOOLEAN : settings_stub("admin", allow)

SpecSales == Init /\ [][NextSales]_vars

\* The lines of invoice inv_id among lines, in the order they were stored
LinesOf(lines, inv_id) == SelectSeq(lines, LAMBDA l : l.invoice_id = inv_id)

\* The quantity of item on the lines given
QtyOn(lines, item) ==
    SumSeq([i \in 1..Len(lines) |-> IF lines[i].item_id = item THEN lines[i].qty ELSE 0])

\* The unit price on the last of the lines given that names item
LastPriceOn(lines, item) ==
    LET at == {i \in 1..Len(lines) : lines[i].item_id = item}
    IN lines[CHOOSE i \in at : \A j \in at : j <= i].unit_price

PriceRowsOf(ph, person, item) ==
    {k \in 1..Len(ph) : ph[k].person_id = person /\ ph[k].item_id = item}

\* C17: a sales invoice accepted by the unified route lowers the stock_qty of
\* every item on its lines by the quantity of those lines, raises the person's
\* balance by exactly the invoice's total, and leaves exactly one PriceHistory
\* row for the person and each item on the lines, holding the item's unit
\* price (the one of its last line).
C17_SalesInvoiceEffects ==
    [][ ( /\ req'.op = "invoice"
          /\ resp'.status = "created"
          /\ resp'.form_kind = "sales" )
        => LET inv == invoices'[resp'.invoice_id]
               lines == LinesOf(invoice_lines', resp'.invoice_id)
               items == {lines[i].item_id : i \in 1..Len(lines)}
           IN /\ inv.kind = "sales"
              /\ lines # <<>>
              /\ \A e \in 1..Len(entities) :
                    entities'[e].stock_qty =
                        IF e \in items THEN entities[e].stock_qty - QtyOn(lines, e)
                        ELSE entities[e].stock_qty
              /\ entities'[inv.person_id].balance =
                    entities[inv.person_id].balance + inv.total
              /\ \A e \in items :
                    /\ Cardinality(PriceRowsOf(price_history', inv.person_id, e)) = 1
                    /\ \A k \in PriceRowsOf(price_history', inv.person_id, e) :
                          price_history'[k].last_price = LastPriceOn(lines, e) ]_vars

\* A second sales invoice was accepted whose two lines name the same item at
\* two prices; the pair's price row, already there, holds the later price.
C17_Witness ==
    /\ req.op = "invoice"
    /\ resp.status = "created"
    /\ resp.form_kind = "sales"
    /\ resp.invoice_id = 2
    /\ LET lines == LinesOf(invoice_lines, 2)
       IN /\ Len(lines) = 2
          /\ lines[1].item_id = lines[2].item_id
          /\ lines[1].unit_price # lines[2].unit_price
          /\ \E k \in PriceRowsOf(price_history, invoices[2].person_id, lines[2].item_id) :
                price_history[k].last_price = lines[2].unit_price
    /\ \E l \in 1..Len(invoice_lines) :
          invoice_lines[l].invoice_id = 1 /\ invoice_lines[l].item_id = 2

-----------------------------------------------------------------------------
(* Entities: the web forms and the developer console *)

\* validate_entity_form(form, for_update_id): the errors found, as the set of
\* the fields at fault.  A code is a digit string of 3, 6 or 9 digits exactly
\* when it has one to three groups.
validate_entity_form(form, for_update_id) ==
    LET lvl == IF Len(form.code) \in 1..3 THEN Len(form.code) ELSE 0
        others == {e \in EntityIds : e # for_update_id /\ entities[e].type = form.type}
    IN    (IF form.type \notin {"person", "item"} THEN {"type"} ELSE {})
     \cup (IF lvl = 0 THEN {"code length"} ELSE {})
     \cup (IF \E e \in others : entities[e].code = form.code THEN {"code"} ELSE {})
     \cup (IF \E e \in others : entities[e].name = form.name THEN {"name"} ELSE {})
     \cup (IF /\ lvl \in {1, 2}
              /\ \E e \in EntityIds :
                    /\ entities[e].type = form.type
                    /\ Len(entities[e].code) = lvl + 1
                    /\ IsPrefix(form.code, entities[e].code)
           THEN {"children"} ELSE {})

\* The ledger after record_ledger inside try/except: a failed write is dropped.
LedgerWith(object_type, object_id, action, lag) ==
    LET row == LedgerRow(object_type, object_id, action, "{..}", lag)
    IN IF row.hash \in LedgerHashes THEN ledger_entries
       ELSE Append(ledger_entries, row)

\* POST /entities/new
entities_new(user_id, form, lag) ==
    LET u == load_user(user_id)
        errors == validate_entity_form(form, 0)
        ent == [type |-> form.type, code |-> form.code, name |-> form.name,
                parent_id |-> ParentByCode(entities, form.type, form.code),
                stock_qty |-> 0, balance |-> 0]
    IN /\ Len(entities) < MaxEntities
       /\ Len(ledger_entries) < MaxLedger
       /\ req' = [op |-> "entities_new", user |-> user_id, form |-> form]
       /\ IF u = ""
          THEN resp' = [status |-> "login"] /\ UNCHANGED <<entities, ledger_entries>>
          ELSE IF ~ensure_permission(u, {"entities"})
          THEN resp' = [status |-> "forbidden"] /\ UNCHANGED <<entities, ledger_entries>>
          ELSE IF errors # {}
          THEN resp' = [status |-> "rejected"] /\ UNCHANGED <<entities, ledger_entries>>
          ELSE /\ resp' = [status |-> "created"]
               /\ entities' = Append(entities, ent)
               /\ ledger_entries' = LedgerWith("entity", Len(entities) + 1, "create", lag)
       /\ UNCHANGED <<yearVars, updaterVars, webVars>>
       /\ UNCHANGED <<users, allow_negative_sales, invoices, invoice_lines,
                      price_history, cash_boxes, cash_docs, AI_PENDING_TASKS,
                      tokens_issued, files, now>>

\* POST /entities/<eid>/edit
entities_edit(user_id, eid, form, lag) ==
    LET u == load_user(user_id)
        errors == validate_entity_form(form, eid)
    IN /\ Len(ledger_entries) < MaxLedger
       /\ req' = [op |-> "entities_edit", user |-> user_id, eid |-> eid, form |-> form]
       /\ IF u = ""
          THEN resp' = [status |-> "login"] /\ UNCHANGED <<entities, ledger_entries>>
          ELSE IF ~is_admin(u)
          THEN resp' = [status |-> "forbidden"] /\ UNCHANGED <<entities, ledger_entries>>
          ELSE IF EntityGet(eid) = 0
          THEN resp' = [status |-> "not found"] /\ UNCHANGED <<entities, ledger_entries>>
          ELSE IF errors # {}
          THEN resp' = [status |-> "rejected"] /\ UNCHANGED <<entities, ledger_entries>>
          ELSE /\ resp' = [status |-> "edited"]
               /\ entities' = [entities EXCEPT
                                 ![eid].type = form.type,
                                 ![eid].code = form.code,
                                 ![eid].name = form.name,
                                 ![eid].parent_id =
                                     ParentByCode(entities, form.type, form.code)]
               /\ ledger_entries' = LedgerWith("entity", eid, "update", lag)
       /\ UNCHANGED <<yearVars, updaterVars, webVars>>
       /\ UNCHANGED <<users, allow_negative_sales, invoices, invoice_lines,
                      price_history, cash_boxes, cash_docs, AI_PENDING_TASKS,
                      tokens_issued, files, now>>

\* SEED_ITEMS: the three sample items, each added when its code is free.
SeedItems ==
    << [code |-> <<101>>, name |-> <<"l", "a", "p">>],
       [code |-> <<101, 1>>, name |-> <<"l", "a", "p", " ", "h", "p">>],
       [code |-> <<101, 1, 1>>, name |-> <<"h", "p">>] >>

RECURSIVE Seeded(_, _)
Seeded(ents, i) ==
    IF i > Len(SeedItems) THEN ents
    ELSE IF \E e \in 1..Len(ents) :
               ents[e].type = "item" /\ ents[e].code = SeedItems[i].code
    THEN Seeded(ents, i + 1)
    ELSE Seeded(Append(ents, [type |-> "item", code |-> SeedItems[i].code,
                              name |-> SeedItems[i].name,
                              parent_id |-> ParentByCode(ents, "item", SeedItems[i].code),
                              stock_qty |-> 0, balance |-> 0]),
                i + 1)

\* _run_script_lines on one line of script: ADD_ITEM / ADD_PERSON code name,
\* RENAME type code new_name, SEED_ITEMS.
_run_script_lines(line) ==
    LET form == [type |-> IF line.cmd = "ADD_ITEM" THEN "item" ELSE "person",
                 code |-> line.code, name |-> line.name]
        found == EntityByCode(line.type, line.code)
    IN IF line.cmd \in {"ADD_ITEM", "ADD_PERSON"}
       THEN IF validate_entity_form(form, 0) # {} THEN entities
            ELSE Append(entities,
                        [type |-> form.type, code |-> form.code, name |-> form.name,
                         parent_id |-> ParentByCode(entities, form.type, form.code),
                         stock_qty |-> 0, balance |-> 0])
       ELSE IF line.cmd = "RENAME"
       THEN IF found = 0 THEN entities
            ELSE [entities EXCEPT ![found].name = line.name]
       ELSE Seeded(entities, 1)

\* POST /developer with a script of one line
developer_console(user_id, line) ==
    LET u == load_user(user_id)
    IN /\ Len(entities) < MaxEntities
       /\ req' = [op |-> "developer", user |-> user_id, line |-> line]
       /\ IF u = ""
          THEN resp' = [status |-> "login"] /\ UNCHANGED entities
          ELSE IF ~is_admin(u)
          THEN resp' = [status |-> "forbidden"] /\ UNCHANGED entities
          ELSE resp' = [status |-> "ran"] /\ entities' = _run_script_lines(line)
       /\ UNCHANGED <<yearVars, updaterVars, webVars>>
       /\ UNCHANGED <<users, allow_negative_sales, invoices, invoice_lines,
                      price_history, cash_boxes, cash_docs, ledger_entries,
                      AI_PENDING_TASKS, tokens_issued, files, now>>

EntityNames == { <<"p", "e", "n">>, <<"b", "o", "x">> }

EntityForms ==
    { [type |-> "item", code |-> c, name |-> n] :
        c \in {<<101>>, <<100, 0, 1>>}, n \in EntityNames }
    \cup { [type |-> "person", code |-> <<100>>, name |-> <<"b", "o", "x">>] }

ScriptLines ==
    { [cmd |-> "ADD_ITEM", type |-> "item", code |-> <<101>>, name |-> <<"b", "o", "x">>],
      [cmd |-> "ADD_PERSON", type |-> "person", code |-> <<101>>, name |-> <<"b", "o", "x">>],
      [cmd |-> "RENAME", type |-> "item", code |-> <<100, 0, 1>>, name |-> <<"p", "e", "n">>],
      [cmd |-> "SEED_ITEMS", type |-> "item", code |-> NoCode, name |-> <<>>] }

EntitiesResult ==
    Result(FALSE, <<InvoiceData("purchase", <<"a", "l", "i">>, NoCode,
                                <<PlanRow(<<"b", "o", "x">>, 1, 3)>>)>>, <<>>, <<>>)

NextEntities ==
    \/ \E u \in {"admin", "seller"}, form \in EntityForms :
          entities_new(u, form, MaxLag)
    \/ \E form \in EntityForms : entities_edit("admin", 3, form, MaxLag)
    \/ \E line \in ScriptLines : developer_console("admin", line)
    \/ assistant_chat("seller", EntitiesResult, MaxLag)
    \/ \E token \in 1..MaxTickets : assistant_apply("seller", token, MaxLag)

SpecEntities == Init /\ [][NextEntities]_vars

\* C18: whatever entity operations have run, no two Entity rows share
\* (type, code) and no two share (type, name).
C18_EntitiesUnique ==
    \A e, f \in EntityIds :
        (e # f /\ entities[e].type = entities[f].type)
            => ( /\ entities[e].code # entities[f].code
                 /\ entities[e].name # entities[f].name )

-----------------------------------------------------------------------------
(* Cheque fields of the cash documents *)

\* C19: every stored CashDoc whose method is not "cheque" has its cheque
\* fields absent (the model keeps the cheque number of them), however the
\* document was created and whatever edit the admin made.
C19_ChequeFieldsOnlyOnCheques ==
    \A d \in 1..Len(cash_docs) :
        cash_docs[d].method # "cheque" => cash_docs[d].cheque_number = <<>>

-----------------------------------------------------------------------------
(* The /sales and /purchase aliases of the invoice route *)

\* The kind an alias stands for
AliasKind(path) == IF path = "/purchase" THEN "purchase" ELSE "sales"

\* C20: a request to the /purchase alias without a kind query parameter is
\* handled as a purchase, and one to the /sales alias as a sale: the
\* permission asked for is the one of that kind, and an invoice the request
\* stores has that kind and a number generated for that kind.
C20_AliasDecidesKind ==
    [][ ( /\ req'.op = "invoice"
          /\ req'.kind = ""
          /\ req'.path \in {"/sales", "/purchase"}
          /\ load_user(req'.user) # "" )
        => LET k == AliasKind(req'.path)
           IN /\ resp'.status = "forbidden"
                    <=> ~ensure_permission(load_user(req'.user), {InvoicePermission(k)})
              /\ (resp'.status = "created" /\ req'.form.invoice_kind = "")
                    => /\ invoices'[resp'.invoice_id].kind = k
                       /\ StartsWithInv(invoices'[resp'.invoice_id].number)
                             <=> k = "sales" ]_vars

-----------------------------------------------------------------------------
(* The user catalog: /admin/users and /login *)

\* load_users_catalog(): the entries of users.json, and the configured admin
\* added when the file does not name it.
load_users_catalog ==
    IF ADMIN_USERNAME \in DOMAIN users THEN users
    ELSE Put(users, ADMIN_USERNAME,
             [password |-> ADMIN_PASSWORD, role |-> "admin",
              permissions |-> ADMIN_PERMISSIONS, is_active |-> TRUE])

\* An update of the configured admin with the role and the active flag the
\* form asked for, left as submitted
UpdateAsSubmitted(username, role, is_active) ==
    [role |-> role, is_active |-> is_active]

\* The role and the active flag an update stores: the configured admin is
\* forced to role admin and active.
UpdateForced(username, role, is_active) ==
    IF username = ADMIN_USERNAME THEN [role |-> "admin", is_active |-> TRUE]
    ELSE [role |-> role, is_active |-> is_active]

\* The catalog admin_users saves for a POST, and what it told the user
UsersPost(catalog, form) ==
    LET username == form.username
        role == IF form.role \in {"staff", "limited", "admin"} THEN form.role ELSE "staff"
        forced == UpdateForced(username, role, form.is_active)
        same == [status |-> "refused", users |-> users]
    IN IF form.action = "delete"
       THEN IF username = "" \/ username = ADMIN_USERNAME \/ username \notin DOMAIN catalog
            THEN same
            ELSE [status |-> "deleted",
                  users |-> [u \in DOMAIN catalog \ {username} |-> catalog[u]]]
       ELSE IF form.action = "update"
       THEN IF username = "" \/ username \notin DOMAIN catalog
            THEN same
            ELSE [status |-> "saved",
                  users |-> [catalog EXCEPT ![username] =
                               [password |-> IF form.password # "" THEN form.password
                                             ELSE @.password,
                                role |-> forced.role,
                                permissions |-> _permissions_for_role(forced.role,
                                                                      form.permissions),
                                is_active |-> forced.is_active]]]
       ELSE IF \/ username = ""
               \/ username \in DOMAIN catalog
               \/ form.password = ""
               \/ form.password # form.password_confirm
       THEN same
       ELSE [status |-> "created",
             users |-> Put(catalog, username,
                           [password |-> form.password, role |-> role,
                            permissions |-> _permissions_for_role(role, form.permissions),
                            is_active |-> form.is_active])]

\* POST /admin/users
admin_users(user_id, form) ==
    LET u == load_user(user_id)
        out == UsersPost(load_users_catalog, form)
    IN /\ req' = [op |-> "admin_users", user |-> user_id, form |-> form]
       /\ IF u = ""
          THEN resp' = [status |-> "login"] /\ UNCHANGED users
          ELSE IF ~is_admin(u)
          THEN resp' = [status |-> "forbidden"] /\ UNCHANGED users
          ELSE resp' = [status |-> out.status] /\ users' = out.users
       /\ UNCHANGED <<yearVars, updaterVars, webVars>>
       /\ UNCHANGED <<allow_negative_sales, entities, invoices, invoice_lines,
                      price_history, cash_boxes, cash_docs, ledger_entries,
                      AI_PENDING_TASKS, tokens_issued, files, now>>

\* POST /login from a browser whose session, if any, is for user_id
login(user_id, username, password) ==
    LET catalog == load_users_catalog
    IN /\ req' = [op |-> "login", user |-> user_id, username |-> username,
                  password |-> password]
       /\ IF load_user(user_id) # ""
          THEN resp' = [status |-> "already"] /\ UNCHANGED sessions
          ELSE IF username \notin DOMAIN catalog \/ catalog[username].password # password
          THEN resp' = [status |-> "bad"] /\ UNCHANGED sessions
          ELSE IF ~catalog[username].is_active
          THEN resp' = [status |-> "inactive"] /\ UNCHANGED sessions
          ELSE resp' = [status |-> "logged in"] /\ sessions' = sessions \cup {username}
       /\ UNCHANGED <<yearVars, updaterVars, workers, assistant_settings>>
       /\ UNCHANGED <<users, allow_negative_sales, entities, invoices, invoice_lines,
                      price_history, cash_boxes, cash_docs, ledger_entries,
                      AI_PENDING_TASKS, tokens_issued, files, now>>

UserForm(action, username, role, permissions, is_active, password) ==
    [action |-> action, username |-> username, role |-> role,
     permissions |-> permissions, is_active |-> is_active,
     password |-> password, password_confirm |-> "pw"]

UserForms ==
    { UserForm("delete", n, "", {}, FALSE, "") : n \in {"admin", "seller", "boss"} }
    \cup { UserForm("update", n, "limited", {"sales"}, on, "") :
              n \in {"admin", "seller"}, on \in BOOLEAN }
    \cup { UserForm("update", "seller", "", {}, TRUE, "pw2"),
           UserForm("create", "boss", "admin", {}, TRUE, "pw"),
           UserForm("create", "seller", "limited", {"sales"}, TRUE, "pw"),
           UserForm("create", "boss", "limited", {}, TRUE, "") }

NextUsers ==
    \/ \E u \in sessions, form \in UserForms : admin_users(u, form)
    \/ \E u \in sessions \cup {""}, n \in {"admin", "seller", "boss"},
          pw \in {"pw", ADMIN_PASSWORD} : login(u, n, pw)
    \/ \E u \in sessions : api_audit_log(u, "users")

SpecUsers == Init /\ [][NextUsers]_vars

\* C21: whatever user-management requests were made, the configured admin
\* username is in the catalog with role admin and is_active true.
C21_AdminStays ==
    /\ ADMIN_USERNAME \in DOMAIN users
    /\ users[ADMIN_USERNAME].role = "admin"
    /\ users[ADMIN_USERNAME].is_active

\* Another admin has saved an update of the configured admin that asked for a
\* lesser role and an inactive account.
C21_Witness ==
    /\ req.op = "admin_users"
    /\ req.user # ADMIN_USERNAME
    /\ req.form.action = "update"
    /\ req.form.username = ADMIN_USERNAME
    /\ req.form.role = "limited"
    /\ ~req.form.is_active
    /\ resp.status = "saved"
    /\ C21_AdminStays

-----------------------------------------------------------------------------
(* Balances against the stored documents *)

\* What the stored invoices and cash documents of person p add up to: sales
\* and payments count for, purchases and receipts against.
DocumentsBalance(p) ==
    SumSeq([i \in 1..Len(invoices) |->
              IF invoices[i].person_id # p THEN 0
              ELSE IF invoices[i].kind = "sales" THEN invoices[i].total
              ELSE 0 - invoices[i].total])
    + SumSeq([d \in 1..Len(cash_docs) |->
                IF cash_docs[d].person_id # p THEN 0
                ELSE IF cash_docs[d].doc_type = "payment" THEN cash_docs[d].amount
                ELSE IF cash_docs[d].doc_type = "receive" THEN 0 - cash_docs[d].amount
                ELSE 0])

\* C22: within one fiscal year every person's balance is the sum of the
\* person's sales invoice totals, minus purchase totals, minus receive
\* amounts, plus payment amounts, over the documents now stored.
C22_BalanceMatchesDocuments ==
    \A p \in EntityIds :
        entities[p].type = "person" => entities[p].balance = DocumentsBalance(p)

-----------------------------------------------------------------------------
(* Requests handled by several threads at once *)

\* A request thread that is past the reads of its handler and has yet to
\* write: what it read is kept with it.
Begun(w) == workers' = Append(workers, w)

Ended(w) == workers' = [workers EXCEPT ![w].pc = "done"]

Waiting(op) == {w \in 1..Len(workers) : workers[w].op = op /\ workers[w].pc = "write"}

\* unified_invoice up to db.session.add(inv): the user, the person, the rows
\* and the number are checked against what the thread's session reads.
unified_invoice_read(user_id, path, kind_arg, form) ==
    LET u == load_user(user_id)
        kind == InvoiceKindOfQuery(kind_arg)
        out == InvoicePost(kind, form)
        scan == ScanRows(form.rows, 1, out.form_kind, allow_negative_sales,
                         [rows |-> <<>>, pending |-> <<>>, short |-> 0])
    IN /\ Len(workers) < MaxWorkers
       /\ req' = [op |-> "invoice", user |-> user_id, path |-> path,
                  kind |-> kind_arg, form |-> form]
       /\ IF u = ""
          THEN resp' = [status |-> "login"] /\ UNCHANGED workers
          ELSE IF ~ensure_permission(u, {InvoicePermission(kind)})
          THEN resp' = [status |-> "forbidden"] /\ UNCHANGED workers
          ELSE IF out.status # "created"
          THEN /\ resp' = [status |-> out.status, reason |-> out.reason,
                           form_kind |-> out.form_kind, invoice_id |-> 0]
               /\ UNCHANGED workers
          ELSE /\ resp' = [status |-> "none"]
               /\ Begun([op |-> "invoice", pc |-> "write", rows |-> scan.rows,
                         inv |-> out.invoices[Len(out.invoices)], seen |-> entities])
       /\ UNCHANGED <<yearVars, updaterVars, sessions, assistant_settings>>
       /\ UNCHANGED <<users, allow_negative_sales, entities, invoices, invoice_lines,
                      price_history, cash_boxes, cash_docs, ledger_entries,
                      AI_PENDING_TASKS, tokens_issued, files, now>>

\* unified_invoice from db.session.flush() to the commit, by thread w: the
\* stock and the balance written are the ones computed from the values the
\* session loaded; a number taken meanwhile fails the INSERT.
unified_invoice_write(w) ==
    LET me == workers[w]
        inv_id == Len(invoices) + 1
        done == RouteLines(me.rows, 1, me.inv.kind, me.inv.person_id, inv_id,
                           [lines |-> invoice_lines, ents |-> me.seen,
                            ph |-> price_history])
        items == {me.rows[i].item : i \in 1..Len(me.rows)}
    IN /\ w \in Waiting("invoice")
       /\ req' = [op |-> "invoice_write", worker |-> w]
       /\ Ended(w)
       /\ IF me.inv.number \in InvoiceNumbers
          THEN /\ resp' = [status |-> "error", reason |-> "number",
                           form_kind |-> me.inv.kind, invoice_id |-> 0]
               /\ DbUnchanged
          ELSE /\ resp' = [status |-> "created", reason |-> "",
                           form_kind |-> me.inv.kind, invoice_id |-> inv_id]
               /\ invoices' = Append(invoices, me.inv)
               /\ invoice_lines' = done.lines
               /\ price_history' = done.ph
               /\ entities' = [e \in DOMAIN entities |->
                     IF e \in items
                     THEN [entities[e] EXCEPT !.stock_qty = done.ents[e].stock_qty]
                     ELSE IF e = me.inv.person_id
                     THEN [entities[e] EXCEPT !.balance =
                              BalanceAfter(me.inv.kind, me.seen[e].balance, me.inv.total)]
                     ELSE entities[e]]
               /\ UNCHANGED cash_docs
       /\ UNCHANGED <<yearVars, updaterVars, sessions, assistant_settings>>
       /\ UNCHANGED <<users, allow_negative_sales, cash_boxes, ledger_entries,
                      AI_PENDING_TASKS, tokens_issued, files, now>>

\* record_ledger up to the new LedgerEntry: the last row is read and the hash
\* computed over its hash.
record_ledger_read(object_type, object_id, action, payload_text, lag) ==
    /\ Len(workers) < MaxWorkers
    /\ req' = [op |-> "ledger", object_type |-> object_type,
               object_id |-> object_id, action |-> action, payload |-> payload_text]
    /\ resp' = [status |-> "none"]
    /\ Begun([op |-> "ledger", pc |-> "write",
              row |-> LedgerRow(object_type, object_id, action, payload_text, lag)])
    /\ UNCHANGED <<yearVars, updaterVars, sessions, assistant_settings>>
    /\ UNCHANGED <<users, allow_negative_sales, entities, invoices, invoice_lines,
                   price_history, cash_boxes, cash_docs, ledger_entries,
                   AI_PENDING_TASKS, tokens_issued, files, now>>

\* record_ledger's db.session.add(entry) and commit, by thread w
record_ledger_write(w) ==
    /\ w \in Waiting("ledger")
    /\ req' = [op |-> "ledger_write", worker |-> w]
    /\ Ended(w)
    /\ IF workers[w].row.hash \in LedgerHashes
       THEN resp' = [status |-> "error"] /\ UNCHANGED ledger_entries
       ELSE /\ resp' = [status |-> "recorded"]
            /\ ledger_entries' = Append(ledger_entries, workers[w].row)
    /\ UNCHANGED <<yearVars, updaterVars, sessions, assistant_settings>>
    /\ UNCHANGED <<users, allow_negative_sales, entities, invoices, invoice_lines,
                   price_history, cash_boxes, cash_docs, AI_PENDING_TASKS,
                   tokens_issued, files, now>>

\* assistant_apply up to the test of the owner in _pop_ai_task: the expired
\* tickets are dropped and the ticket's data is fetched.
assistant_apply_get(user_id, token, lag) ==
    LET u == load_user(user_id)
        cleaned == _cleanup_ai_tasks(AI_PENDING_TASKS)
        held == /\ u # ""
                /\ ensure_permission(u, {"assistant"})
                /\ token \in DOMAIN cleaned
                /\ TaskOwnedBy(cleaned[token], u)
    IN /\ Len(workers) < MaxWorkers
       /\ IF held
          THEN /\ req' = [op |-> "apply", user |-> user_id, ticket |-> token]
               /\ resp' = [status |-> "none"]
               /\ AI_PENDING_TASKS' = cleaned
               /\ Begun([op |-> "apply", pc |-> "write", user |-> user_id,
                         token |-> token, payload |-> cleaned[token].payload])
               /\ UNCHANGED <<dbVars, ledger_entries, users, allow_negative_sales,
                              cash_boxes, tokens_issued, files, now>>
               /\ UNCHANGED <<yearVars, updaterVars, sessions, assistant_settings>>
          ELSE assistant_apply(user_id, token, lag)

\* AI_PENDING_TASKS.pop(token, None) and the plan applied, by thread w
assistant_apply_pop(w, lag) ==
    LET me == workers[w]
        rest == [t \in DOMAIN AI_PENDING_TASKS \ {me.token} |-> AI_PENDING_TASKS[t]]
    IN /\ w \in Waiting("apply")
       /\ Ended(w)
       /\ ApplyRespond(me.user, me.token,
                       ApplyPopped([payload |-> <<me.payload>>, tasks |-> rest], lag))

RaceForms ==
    { InvoiceForm("", 1, << FormRow(2, 8, 3) >>),
      InvoiceForm("", 1, << FormRow(2, 3, 3), FormRow(3, 1, 5) >>) }

NextInvoiceRace ==
    \/ \E form \in RaceForms : unified_invoice_read("seller", "/invoice", "", form)
    \/ \E w \in 1..Len(workers) : unified_invoice_write(w)
    \/ AdvanceTime(1)

SpecInvoiceRace == Init /\ [][NextInvoiceRace]_vars

\* The quantity of item e on the lines of the stored sales invoices
SoldQty(e) ==
    SumSeq([l \in 1..Len(invoice_lines) |->
              IF /\ invoice_lines[l].item_id = e
                 /\ invoices[invoice_lines[l].invoice_id].kind = "sales"
              THEN invoice_lines[l].qty ELSE 0])

\* C23: when sales invoices for an item are handled by request threads at the
\* same time and accepted, the item's stock_qty is its initial stock less the
\* quantities of all of them, and with allow_negative_sales off it is never
\* below -1e-6.
C23_ConcurrentSalesCounted ==
    \A e \in EntityIds :
        entities[e].type = "item"
            => /\ entities[e].stock_qty = InitEntities[e].stock_qty - SoldQty(e)
               /\ ~allow_negative_sales => entities[e].stock_qty >= 0 - Eps

NextLedgerRace ==
    \/ \E object_type \in {"invoice", "cashdoc"}, payload_text \in {"{}", "{..}"},
          lag \in 0..MaxLag :
          record_ledger_read(object_type, 1, "create", payload_text, lag)
    \/ \E w \in 1..Len(workers) : record_ledger_write(w)
    \/ AdvanceTime(TicketTTL)

SpecLedgerRace == Init /\ [][NextLedgerRace]_vars

\* C24: when record_ledger runs in several requests at once the LedgerEntry
\* rows still form one chain: no two rows have the same prev_hash, and every
\* row's prev_hash is the hash of the row with the id just before it (none
\* for the first row).
C24_LedgerOneChain ==
    /\ \A i \in 1..Len(ledger_entries) :
          ledger_entries[i].prev_hash =
              IF i = 1 THEN NoHash ELSE ledger_entries[i - 1].hash
    /\ \A i, j \in 1..Len(ledger_entries) :
          i # j => ledger_entries[i].prev_hash # ledger_entries[j].prev_hash

RaceResults ==
    { Result(TRUE, <<InvoiceData("sales", <<"a", "l", "i">>, NoCode,
                                 <<PlanRow(<<"p", "e", "n">>, 2, 3)>>)>>, <<>>, <<>>),
      Result(TRUE, <<>>, <<CashData("receive", <<"a", "l", "i">>, <<5>>, "cash")>>, <<>>) }

NextApplyRace ==
    \/ \E result \in RaceResults : assistant_chat("seller", result, MaxLag)
    \/ \E u \in {"seller", "teller"}, token \in 1..MaxTickets :
          assistant_apply_get(u, token, MaxLag)
    \/ \E w \in 1..Len(workers) : assistant_apply_pop(w, MaxLag)
    \/ \E d \in {1, TicketTTL} : AdvanceTime(d)

SpecApplyRace == Init /\ [][NextApplyRace]_vars

\* C25: a ticket leads to at most one applied plan, also when two apply
\* requests carrying it are handled at the same time: with every plan behind
\* a ticket, no more invoices and cash documents are stored than tickets
\* were issued.
C25_TicketAppliedOnce ==
    Len(invoices) + Len(cash_docs) <= tokens_issued

-----------------------------------------------------------------------------
(* Who may close the year *)

\* C26: a signed-in user without the admin role can never cause the
\* fiscal-year reset of the transactional tables: a new-year request of such
\* a user leaves the invoices, their lines, the cash documents, the price
\* history, the audit events and the entities as they were.
C26_OnlyAdminResetsTheYear ==
    [][ (req'.op = "new_year" /\ ~is_admin(load_user(req'.user)))
        => UNCHANGED <<invoices, invoice_lines, cash_docs, price_history,
                       audit_events, entities>> ]_vars

-----------------------------------------------------------------------------
(* Invoice numbers already in use *)

\* The number a request to the invoice route submits: the typed one, else
\* the one the route generated for the form.
NumberSubmitted(r) ==
    IF r.form.inv_number # NoNumber THEN r.form.inv_number
    ELSE IF InvoiceKindOfQuery(r.kind) = "sales" THEN jalali_reference("INV", now)
    ELSE PurchaseNumberGenerated

NumberForms ==
    { [InvoiceForm("", 1, << FormRow(2, 1, 3) >>) EXCEPT !.inv_number = n] :
        n \in {NoNumber, Digits(1, 8), Digits(2, 8)} }

NumberResults ==
    { Result(FALSE, << [InvoiceData("sales", <<"a", "l", "i">>, NoCode,
                                    <<PlanRow(<<"p", "e", "n">>, 1, 3)>>)
                          EXCEPT !.number = n] >>, <<>>, <<>>) :
        n \in {NoNumber, Digits(1, 8)} }

NextNumbers ==
    \/ \E form \in NumberForms : unified_invoice("seller", "/invoice", "", form)
    \/ \E result \in NumberResults : assistant_chat("seller", result, MaxLag)
    \/ AdvanceTime(1)

SpecNumbers == Init /\ [][NextNumbers]_vars

\* The request submits, through the form or through the assistant's plan, a
\* number some stored invoice has, and nothing else is wrong with it.
NumberCollides(r, answer) ==
    IF r.op = "invoice"
    THEN /\ NumberSubmitted(r) \in InvoiceNumbers
         /\ answer.status \notin {"login", "forbidden", "rejected"}
    ELSE IF r.op = "chat"
    THEN /\ answer.status = "ok"
         /\ r.result.invoice # <<>>
         /\ r.result.invoice[1].number \in InvoiceNumbers
    ELSE FALSE

\* C27: when the number an invoice request submits is the number of a stored
\* invoice, the invoice is still created, under a number no stored invoice
\* had.
C27_CollisionGetsFreshNumber ==
    [][ NumberCollides(req', resp')
        => ( /\ Len(invoices') = Len(invoices) + 1
             /\ invoices'[Len(invoices')].number \notin InvoiceNumbers ) ]_vars

-----------------------------------------------------------------------------
(* Plans that wait for confirmation *)

TicketResults ==
    LET ali == <<"a", "l", "i">>
        pen == <<"p", "e", "n">>
        sale == InvoiceData("sales", ali, NoCode, <<PlanRow(pen, 2, 3)>>)
        receipt == CashData("receive", ali, <<5>>, "cash")
    IN { Result(TRUE, <<sale>>, <<>>, <<>>),
         Result(TRUE, <<>>, <<receipt>>, <<>>),
         Result(TRUE, <<sale>>, <<receipt>>, <<>>),
         Result(FALSE, <<sale>>, <<CashData("receive", <<"R", "e", "z", "a">>, <<5>>, "cash")>>,
                <<>>) }

NextTickets ==
    \/ \E result \in TicketResults : assistant_chat("seller", result, MaxLag)
    \/ \E token \in 1..MaxTickets : assistant_apply("seller", token, MaxLag)
    \/ \E d \in {1, TicketTTL} : AdvanceTime(d)

SpecTickets == Init /\ [][NextTickets]_vars

\* The plan the ticket store holds under a token is an invoice plan / a cash
\* plan (the two differ in their keys).
HoldsInvoicePlan(tasks, token) ==
    token \in DOMAIN tasks /\ "missing_partner" \in DOMAIN tasks[token].payload.plan

HoldsCashPlan(tasks, token) ==
    token \in DOMAIN tasks /\ "missing_person" \in DOMAIN tasks[token].payload.plan

\* C28: every invoice plan and every cash plan that a chat response leaves
\* waiting for confirmation is stored under the ticket returned with that
\* response, also when one response carries both an invoice plan and a cash
\* plan.
C28_WaitingPlanHasTicket ==
    [][ (req'.op = "chat" /\ resp'.status = "ok" /\ resp'.needs_confirmation)
        => ( /\ (req'.result.invoice # <<>> /\ resp'.invoice_id = 0)
                    => HoldsInvoicePlan(AI_PENDING_TASKS', resp'.ticket)
             /\ (req'.result.cash # <<>> /\ resp'.cash_id = 0)
                    => HoldsCashPlan(AI_PENDING_TASKS', resp'.ticket) ) ]_vars

-----------------------------------------------------------------------------
(* Drafts of the assistant and their application by the admin *)

\* POST /admin/modules: the admin switches the assistant's modules; the model
\* keeps the auto-create switch.
admin_modules(user_id, enable_auto_create) ==
    LET u == load_user(user_id)
    IN /\ req' = [op |-> "modules", user |-> user_id, enable |-> enable_auto_create]
       /\ IF u = ""
          THEN resp' = [status |-> "login"] /\ UNCHANGED assistant_settings
          ELSE IF ~is_admin(u)
          THEN resp' = [status |-> "forbidden"] /\ UNCHANGED assistant_settings
          ELSE /\ resp' = [status |-> "saved"]
               /\ assistant_settings' =
                     [assistant_settings EXCEPT !.enable_auto_create = enable_auto_create]
       /\ UNCHANGED <<yearVars, updaterVars, sessions, workers>>
       /\ UNCHANGED <<users, allow_negative_sales, entities, invoices, invoice_lines,
                      price_history, cash_boxes, cash_docs, ledger_entries,
                      AI_PENDING_TASKS, tokens_issued, files, now>>

\* A text is the marker words found in it and, when it is a JSON object, the
\* object json.loads makes of it (parsed is <<>> when json.loads fails).
\* "faktor" and "pardakht" stand for the Persian words for invoice and
\* payment, "receipt" for the receipt words, "cheque" for the cheque words.
DetectKind(words) ==
    LET has_invoice == words \cap {"invoice", "faktor"} # {}
        has_receipt == "receipt" \in words
        has_payment == words \cap {"payment", "pardakht"} # {}
    IN IF has_invoice /\ ~(has_receipt \/ has_payment) THEN "invoice"
       ELSE IF has_receipt \/ has_payment
       THEN IF has_receipt /\ ~has_payment THEN "receive"
            ELSE IF has_payment /\ ~has_receipt THEN "payment"
            ELSE IF "pardakht" \in words /\ "faktor" \notin words THEN "payment"
            ELSE "receive"
       ELSE IF "cheque" \in words THEN "receive"
       ELSE IF "item" \in words THEN "item"
       ELSE IF "person" \in words THEN "person"
       ELSE "unknown"

\* POST /assistant/api/parse with a text and no image
assistant_parse(user_id, text) ==
    LET u == load_user(user_id)
        kind == DetectKind(text.words)
        stored == /\ assistant_settings.enable_auto_create
                  /\ kind \in {"invoice", "receive", "payment", "item", "person"}
        d == [kind |-> kind, text |-> text, created_by |-> u]
    IN /\ req' = [op |-> "parse", user |-> user_id, text |-> text]
       /\ IF u = ""
          THEN resp' = [status |-> "login"] /\ UNCHANGED assistant_settings
          ELSE IF ~ensure_permission(u, {"assistant"})
          THEN resp' = [status |-> "forbidden"] /\ UNCHANGED assistant_settings
          ELSE /\ resp' = [status |-> "ok", detected_kind |-> kind,
                           draft |-> stored]
               /\ assistant_settings' =
                     IF stored
                     THEN [assistant_settings EXCEPT !.drafts = <<d>> \o @]
                     ELSE assistant_settings
       /\ Len(assistant_settings'.drafts) <= MaxDrafts
       /\ UNCHANGED <<yearVars, updaterVars, sessions, workers>>
       /\ UNCHANGED <<users, allow_negative_sales, entities, invoices, invoice_lines,
                      price_history, cash_boxes, cash_docs, ledger_entries,
                      AI_PENDING_TASKS, tokens_issued, files, now>>

\* drafts.pop(idx), idx counted from 0
DraftsWithout(drafts, idx) ==
    [i \in 1..(Len(drafts) - 1) |-> IF i <= idx THEN drafts[i] ELSE drafts[i + 1]]

\* What applying the draft's JSON object does to the tables: the invoice or
\* cash plan is the object itself.  A key the object lacks is "" here, and
\* plan.get("kind", "sales") gives "sales" for it.
DraftApplied(payload, lag) ==
    LET kind == IF payload.kind # "" THEN payload.kind ELSE payload.type
        same == [raised |-> "", entities |-> entities, invoices |-> invoices,
                 invoice_lines |-> invoice_lines, price_history |-> price_history,
                 cash_docs |-> cash_docs, ledger_entries |-> ledger_entries]
        inv == _apply_invoice_plan(
                   [payload EXCEPT !.kind = IF payload.kind = "" THEN "sales"
                                            ELSE payload.kind], lag)
        doc == _apply_cash_plan(entities, cash_docs, ledger_entries, payload, lag)
    IN IF kind = "invoice"
       THEN [same EXCEPT !.raised = inv.raised, !.entities = inv.entities,
                         !.invoices = inv.invoices,
                         !.invoice_lines = inv.invoice_lines,
                         !.price_history = inv.price_history,
                         !.ledger_entries = inv.ledger_entries]
       ELSE IF kind \in {"receive", "payment"}
       THEN [same EXCEPT !.raised = doc.raised, !.entities = doc.entities,
                         !.cash_docs = doc.cash_docs,
                         !.ledger_entries = doc.ledger_entries]
       ELSE [same EXCEPT !.raised = "kind"]

DraftLeavesTables ==
    UNCHANGED <<entities, invoices, invoice_lines, price_history, cash_docs,
                ledger_entries>>

\* POST /admin/assistant-drafts/<idx> with the form's action
admin_assistant_draft_view(user_id, idx, action, lag) ==
    LET u == load_user(user_id)
        drafts == assistant_settings.drafts
        txt == drafts[idx + 1].text
        out == DraftApplied(txt.parsed[1], lag)
    IN /\ req' = [op |-> "draft", user |-> user_id, idx |-> idx, action |-> action]
       /\ IF u = ""
          THEN /\ resp' = [status |-> "login"]
               /\ DraftLeavesTables /\ UNCHANGED assistant_settings
          ELSE IF ~is_admin(u)
          THEN /\ resp' = [status |-> "forbidden"]
               /\ DraftLeavesTables /\ UNCHANGED assistant_settings
          ELSE IF idx < 0 \/ idx >= Len(drafts)
          THEN /\ resp' = [status |-> "missing"]
               /\ DraftLeavesTables /\ UNCHANGED assistant_settings
          ELSE IF action = "delete"
          THEN /\ resp' = [status |-> "deleted"]
               /\ DraftLeavesTables
               /\ assistant_settings' =
                     [assistant_settings EXCEPT !.drafts = DraftsWithout(drafts, idx)]
          ELSE IF action # "apply"
          THEN /\ resp' = [status |-> "shown"]
               /\ DraftLeavesTables /\ UNCHANGED assistant_settings
          ELSE IF txt.parsed = <<>>
          THEN /\ resp' = [status |-> "not applicable"]
               /\ DraftLeavesTables /\ UNCHANGED assistant_settings
          ELSE /\ resp' = [status |-> "tried", raised |-> out.raised]
               /\ entities' = out.entities
               /\ invoices' = out.invoices
               /\ invoice_lines' = out.invoice_lines
               /\ price_history' = out.price_history
               /\ cash_docs' = out.cash_docs
               /\ ledger_entries' = out.ledger_entries
               /\ assistant_settings' =
                     [assistant_settings EXCEPT !.drafts = DraftsWithout(drafts, idx)]
       /\ Len(invoices') <= MaxInvoices
       /\ Len(cash_docs') <= MaxCashDocs
       /\ Len(ledger_entries') <= MaxLedger
       /\ UNCHANGED <<yearVars, updaterVars, sessions, workers>>
       /\ UNCHANGED <<users, allow_negative_sales, cash_boxes, AI_PENDING_TASKS,
                      tokens_issued, files, now>>

\* A JSON object that is both an invoice plan and a cash plan in its keys
DraftObject(kind, type, doc_type) ==
    [kind |-> kind, type |-> type, number |-> NoNumber,
     partner |-> [name |-> <<"a", "l", "i">>, code |-> NoCode, entity_id |-> 0],
     items |-> << [name |-> <<"p", "e", "n">>, code |-> NoCode, qty |-> 2,
                   unit_price |-> 3, entity_id |-> 0] >>,
     doc_type |-> doc_type,
     person |-> [name |-> <<"a", "l", "i">>, code |-> NoCode, entity_id |-> 0],
     amount |-> 5, method |-> "cash", bank_account |-> "", bank_name |-> "",
     cheque_number |-> <<>>]

DraftTexts ==
    { [words |-> {"invoice", "item"}, parsed |-> <<DraftObject("invoice", "", "")>>],
      [words |-> {"invoice", "item"}, parsed |-> <<DraftObject("", "invoice", "")>>],
      [words |-> {"receipt", "person"},
       parsed |-> <<DraftObject("receive", "", "receive")>>],
      [words |-> {"invoice"}, parsed |-> <<>>] }

DraftsForm == InvoiceForm("", 1, << FormRow(2, 1, 3) >>)

DraftsResult ==
    Result(TRUE, <<InvoiceData("purchase", <<"a", "l", "i">>, NoCode,
                               <<PlanRow(<<"p", "e", "n">>, 2, 3)>>)>>, <<>>, <<>>)

NextDrafts ==
    \/ \E b \in BOOLEAN : admin_modules("admin", b)
    \/ \E text \in DraftTexts : assistant_parse("seller", text)
    \/ \E u \in {"admin", "seller"}, action \in {"apply", "delete"} :
          admin_assistant_draft_view(u, 0, action, MaxLag)
    \/ unified_invoice("seller", "/invoice", "", DraftsForm)
    \/ assistant_chat("seller", DraftsResult, MaxLag)
    \/ \E token \in 1..MaxTickets : assistant_apply("seller", token, MaxLag)

SpecDrafts == Init /\ [][NextDrafts]_vars

\* C29: every stored invoice has kind "sales" or "purchase", whichever path
\* created it: the invoice route, the apply of an assistant ticket or the
\* admin's apply of an assistant draft.
C29_InvoiceKindIsSalesOrPurchase ==
    \A i \in 1..Len(invoices) : invoices[i].kind \in {"sales", "purchase"}

-----------------------------------------------------------------------------
(* Users the admin has switched off *)

\* The catalog has no entry for the username, or an inactive one.
Disabled(username) == username \notin DOMAIN users \/ ~users[username].is_active

\* C30: a user the admin has deactivated or deleted cannot log in, and a
\* session such a user still holds is treated as unauthenticated by the next
\* request made with it.
C30_DisabledUserIsOut ==
    [][ /\ (req'.op = "login" /\ Disabled(req'.username))
            => (resp'.status # "logged in" /\ sessions' = sessions)
        /\ (req'.op = "login" /\ req'.user # "" /\ Disabled(req'.user))
            => resp'.status # "already"
        /\ (req'.op # "login" /\ req'.user # "" /\ Disabled(req'.user))
            => resp'.status = "login" ]_vars

\* The seller signed in, was then deactivated or deleted, and the request the
\* seller's session made next was sent to the login page.
C30_Witness ==
    /\ "seller" \in sessions
    /\ Disabled("seller")
    /\ req.op = "audit"
    /\ req.user = "seller"
    /\ resp.status = "login"

====
